---- MODULE Spec2Model ----
(***************************************************************************)
(* Branch reconciliation of stack-builder: GitRepo (sb/utils/git.py) and   *)
(* the "update repo" workflow (sb/workflows/update_repo.py).               *)
(*                                                                         *)
(* A commit is a triple <<line, index, generation>>; a branch tip is       *)
(* identified with the set of commits reachable from it, so that the       *)
(* counts of "git rev-list --left-right --count A...B" are the sizes of    *)
(* the two set differences.  A branch that does not exist has the empty    *)
(* history NoRef.  A rebase replays a commit as a new commit of the next   *)
(* generation.                                                             *)
(***************************************************************************)
EXTENDS Naturals, FiniteSets, Sequences, TLC

VARIABLES
    local,        \* local branches (refs/heads): name -> history
    track,        \* remote-tracking refs origin/<name>: name -> history
    remote,       \* the branches as they are on the default remote
    upstream,     \* name -> whether the local branch has a tracking branch
    active,       \* name of the checked-out branch
    dirty,        \* GitRepo.is_dirty(): uncommitted changes in the tree
    pc,           \* position in update_local_repo
    por,          \* position in pull_or_reset_to_upstream
    cur,          \* pull_or_reset_to_upstream: branch_name
    allow_reset,  \* pull_or_reset_to_upstream: allow_reset
    status,       \* the local variable "status" of the running function
    todo,         \* peer branches the last loop has still to visit
    peer_policy,  \* sb_config.allow_reset_other_nodes_branch once it was read
    err,          \* the exception that ended the run, or "none"
    log,          \* the git operations and prompts issued so far
    mainAtStart,  \* main's tip when the run started
    nodeAtIntegrate, \* the node branch's tip when line 113 classified it
    official,     \* the branches as they are on the official EasyBuild remote
    ebTrack,      \* remote-tracking refs eb-source/<name>
    eb_remote,    \* whether the remote "eb-source" is registered
    mirror,       \* update_from_easybuild_upstream: branch names still to do
    delete_branch_upon_completion,
    call,         \* the GitRepo method a client called last, with its arguments
    result,       \* what that call returned or raised, and the push it sent
    pkgs_to_build,  \* build_stack: the packages the loop has still to build
    eb_tmp,       \* whether /tmp holds "eb-*" directories
    buildpath,    \* whether sb_config.buildpath has content
    initial_branch  \* switch_to_branch: the branch to switch back to

vars == <<local, track, remote, upstream, active, dirty, pc, por, cur,
          allow_reset, status, todo, peer_policy, err, log, mainAtStart,
          nodeAtIntegrate, official, ebTrack, eb_remote, mirror,
          delete_branch_upon_completion, call, result, pkgs_to_build, eb_tmp,
          buildpath, initial_branch>>

\* What update_local_repo never touches, and what
\* update_from_easybuild_upstream never touches.
upvars == <<official, ebTrack, eb_remote, mirror, delete_branch_upon_completion>>
lvars == <<por, cur, allow_reset, todo, peer_policy, mainAtStart, nodeAtIntegrate>>

apivars == <<call, result>>

\* What only build_stack touches.
bvars == <<pkgs_to_build, eb_tmp, buildpath, initial_branch>>

refs == <<local, track, remote, upstream>>

----------------------------------------------------------------------------
(* Bounds and names *)

\* Length of the main line of development on the remote.
MaxMain == 3

\* Number of reset_branch calls the client of the repository object makes.
MaxResets == 1

MainBranch == "main"
NodeBranch == "node"
OtherNodeBranchNames == {"p1", "p2"}
BranchNames == {MainBranch, NodeBranch} \cup OtherNodeBranchNames

UserAnswer == {"YES", "NO", "INTERACTIVE"}

NoRef == {}

\* No method called yet; the fields that stand for optional parameters hold
\* the defaults of the signatures in git.py.
NoCall ==
    [op |-> "none", branch_name |-> "none", branch_to_compare_with |-> "",
     allow_force |-> FALSE, with_fetch |-> FALSE,
     error_on_missing_upstream |-> TRUE, error_on_diverged |-> TRUE,
     allow_reset |-> "none", ref_to_reset_to |-> "", nth |-> 0]

\* The i-th commit of the main line, and the main line up to it.
M(i) == <<"M", i, 0>>
Chain(k) == {M(i) : i \in 1..k}
\* Commits made locally on main / on the node branch / on a peer branch, and
\* commits another clone pushed to the remote node / peer branch.
LM == <<"LM", 1, 0>>
LN == <<"LN", 1, 0>>
RN == <<"RN", 1, 0>>
LP(b) == <<"LP", IF b = "p1" THEN 1 ELSE 2, 0>>
RP(b) == <<"RP", IF b = "p1" THEN 1 ELSE 2, 0>>

----------------------------------------------------------------------------
(* GitRepo.branch_status *)

\* "git rev-list --left-right --count a...b": the commits only a has, and
\* the commits only b has.
Ahead(a, b) == Cardinality(a \ b)
Behind(a, b) == Cardinality(b \ a)

\* Variant: the second test looks at the wrong count.
StatusOfCounts_swapped(ahead, behind) ==
    IF ahead = 0 /\ behind = 0 THEN "UP_TO_DATE"
    ELSE IF ahead = 0 THEN "AHEAD"
    ELSE IF behind = 0 THEN "BEHIND"
    ELSE "DIVERGED"
\* Variant: a branch with commits of its own is AHEAD whatever it lacks.
StatusOfCounts_ahead_first(ahead, behind) ==
    IF ahead = 0 /\ behind = 0 THEN "UP_TO_DATE"
    ELSE IF ahead > 0 THEN "AHEAD"
    ELSE "BEHIND"
\* Lines 173-179: the relation from the two counts.
StatusOfCounts(ahead, behind) ==
    IF ahead = 0 /\ behind = 0 THEN "UP_TO_DATE"
    ELSE IF behind = 0 THEN "AHEAD"
    ELSE IF ahead = 0 THEN "BEHIND"
    ELSE "DIVERGED"

\* The relation of history a to history b.
Classify(a, b) == StatusOfCounts(Ahead(a, b), Behind(a, b))

\* The refs of the repository and of its default remote, as one value.
Repo == [local |-> local, track |-> track, remote |-> remote, upstream |-> upstream]

\* branch_status(b) in repository state R: b against its tracking branch.
\* "RAISES" stands for the GitRepoError raised when the tracking branch is not
\* among the remote branches.
BranchStatus(R, b) ==
    IF ~R.upstream[b] THEN "NO_UPSTREAM"
    ELSE IF R.track[b] = NoRef THEN "RAISES"
    ELSE Classify(R.local[b], R.track[b])

\* branch_status(a, branch_to_compare_with=b) for two local branches.
BranchStatusWith(R, a, b) == Classify(R.local[a], R.local[b])

----------------------------------------------------------------------------
(* The remote's answer to a push, as GitPython's PushInfo.flags reports it *)

PushFlag(R, b, force) ==
    IF R.remote[b] = NoRef THEN "NEW_HEAD"
    ELSE IF R.remote[b] = R.local[b] THEN "UP_TO_DATE"
    ELSE IF R.remote[b] \subseteq R.local[b] THEN "FAST_FORWARD"
    ELSE IF force THEN "FORCED_UPDATE"
    ELSE "REJECTED"

\* A push the remote did not reject moves the remote branch and its
\* remote-tracking ref to the pushed tip.
AfterPush(R, b, force) ==
    IF PushFlag(R, b, force) # "REJECTED"
    THEN [R EXCEPT !.remote[b] = R.local[b], !.track[b] = R.local[b]]
    ELSE R

----------------------------------------------------------------------------
(* GitRepo.reset_branch, pull_branch, push_branch, new_branch, fetch_updates *)
(* as transformers of the repository state R                                *)

\* fetch_updates(): every remote-tracking ref follows the remote, stale ones
\* are pruned.
FetchUpdatesIn(R) == [R EXCEPT !.track = R.remote]

\* remote.fetch() as new_branch calls it: no pruning.
FetchNoPrune(R) ==
    [R EXCEPT !.track = [b \in DOMAIN R.track |->
                            IF R.remote[b] # NoRef THEN R.remote[b] ELSE R.track[b]]]

\* Variant: uncommitted changes do not stop the reset.
ResetBranch_discards(R, b, ref) ==
    [err |-> "none", repo |-> [R EXCEPT !.local[b] = ref]]
\* Variant: the reference is merged into the branch instead.
ResetBranch_merges(R, b, ref) ==
    [err |-> "none", repo |-> [R EXCEPT !.local[b] = R.local[b] \cup ref]]
\* Variant: only the checked-out branch is reset.
ResetBranch_active_only(R, b, ref) ==
    IF active = b
    THEN IF dirty
         THEN [err |-> "GitRepoError", repo |-> R]
         ELSE [err |-> "none", repo |-> [R EXCEPT !.local[b] = ref]]
    ELSE [err |-> "none", repo |-> R]
\* Variant: uncommitted changes refuse the reset of any branch.
ResetBranch_needs_clean(R, b, ref) ==
    IF dirty
    THEN [err |-> "GitRepoError", repo |-> R]
    ELSE [err |-> "none", repo |-> [R EXCEPT !.local[b] = ref]]
\* reset_branch(branch=b, ref_to_reset_to=ref).
ResetBranch(R, b, ref) ==
    IF active = b
    THEN IF dirty
         THEN [err |-> "GitRepoError", repo |-> R]
         ELSE [err |-> "none", repo |-> [R EXCEPT !.local[b] = ref]]
    ELSE [err |-> "none", repo |-> [R EXCEPT !.local[b] = ref]]

\* pull_branch(b, with_fetch=False, error_on_missing_upstream,
\* error_on_diverged).  treeOk: whether git can fast-forward the checked-out
\* branch over the uncommitted changes of a dirty tree.
PullBranchWith(R, b, treeOk, error_on_missing_upstream, error_on_diverged) ==
    LET st == BranchStatus(R, b)
    IN  IF st = "RAISES" THEN [err |-> "GitRepoError", repo |-> R]
        ELSE IF st = "BEHIND"
        THEN IF active = b /\ dirty /\ ~treeOk
             THEN [err |-> "GitCommandError", repo |-> R]
             ELSE IF R.local[b] \subseteq R.remote[b]
             THEN [err |-> "none",
                   repo |-> [R EXCEPT !.local[b] = R.remote[b],
                                      !.track[b] = R.remote[b]]]
             ELSE [err |-> "GitRepoError", repo |-> R]
        ELSE IF st = "DIVERGED" /\ error_on_diverged
        THEN [err |-> "GitRepoError", repo |-> R]
        ELSE IF st = "NO_UPSTREAM" /\ error_on_missing_upstream
        THEN [err |-> "GitRepoError", repo |-> R]
        ELSE [err |-> "none", repo |-> R]

\* Variant: pull_branch as with error_on_diverged=False.
PullBranch_quiet_on_diverged(R, b, treeOk) ==
    LET st == BranchStatus(R, b)
    IN  IF st = "BEHIND" /\ R.local[b] \subseteq R.remote[b]
        THEN [err |-> "none",
              repo |-> [R EXCEPT !.local[b] = R.remote[b], !.track[b] = R.remote[b]]]
        ELSE [err |-> "none", repo |-> R]
\* pull_branch(b, with_fetch=False): both errors are on by default.
PullBranch(R, b, treeOk) == PullBranchWith(R, b, treeOk, TRUE, TRUE)

\* Variant: an AHEAD branch is not pushed.
PushBranch_skips_ahead(R, b, allow_force) ==
    [err |-> "none", repo |-> R, sent |-> "none"]
\* Variant: a diverged branch is force-pushed whether or not force is allowed.
PushBranch_force_unasked(R, b, allow_force) ==
    LET st == BranchStatus(R, b)
    IN  IF st = "DIVERGED"
        THEN [err |-> IF PushFlag(R, b, TRUE) # "FORCED_UPDATE"
                      THEN "GitRepoError" ELSE "none",
              repo |-> AfterPush(R, b, TRUE),
              sent |-> "force"]
        ELSE [err |-> "none", repo |-> R, sent |-> "none"]
\* Variant: with force allowed, a branch that is behind overwrites the remote.
PushBranch_behind_forced(R, b, allow_force) ==
    LET st == BranchStatus(R, b)
    IN  IF st = "BEHIND" /\ allow_force
        THEN [err |-> "none", repo |-> AfterPush(R, b, TRUE), sent |-> "force"]
        ELSE [err |-> "none", repo |-> R, sent |-> "none"]
\* Variant: the first push of a branch does not set its upstream.
PushBranch_no_tracking(R, b, allow_force) ==
    LET st == BranchStatus(R, b)
    IN  IF st \in {"AHEAD", "NO_UPSTREAM"}
        THEN [err |-> IF PushFlag(R, b, FALSE) \in {"FAST_FORWARD", "NEW_HEAD"}
                      THEN "none" ELSE "GitRepoError",
              repo |-> AfterPush(R, b, FALSE),
              sent |-> IF st = "AHEAD" THEN "plain" ELSE "set_upstream"]
        ELSE [err |-> "none", repo |-> R, sent |-> "none"]
\* push_branch(b, allow_force=allow_force).  sent: the push that went out.
\* Variant: a branch that is ahead is pushed with --force.
PushBranch_ahead_forced(R, b, allow_force) ==
    IF BranchStatus(R, b) = "AHEAD"
    THEN [err |-> IF PushFlag(R, b, TRUE) # "FAST_FORWARD"
                  THEN "GitRepoError" ELSE "none",
          repo |-> AfterPush(R, b, TRUE),
          sent |-> "plain"]
    ELSE [err |-> "none", repo |-> R, sent |-> "none"]
PushBranch(R, b, allow_force) ==
    LET st == BranchStatus(R, b)
    IN  IF st = "RAISES" THEN [err |-> "GitRepoError", repo |-> R, sent |-> "none"]
        ELSE IF st = "AHEAD"
        THEN [err |-> IF PushFlag(R, b, FALSE) # "FAST_FORWARD"
                      THEN "GitRepoError" ELSE "none",
              repo |-> AfterPush(R, b, FALSE),
              sent |-> "plain"]
        ELSE IF st = "DIVERGED"
        THEN IF allow_force
             THEN [err |-> IF PushFlag(R, b, TRUE) # "FORCED_UPDATE"
                           THEN "GitRepoError" ELSE "none",
                   repo |-> AfterPush(R, b, TRUE),
                   sent |-> "force"]
             ELSE [err |-> "GitRepoError", repo |-> R, sent |-> "none"]
        ELSE IF st = "NO_UPSTREAM"
        THEN [err |-> IF PushFlag(R, b, FALSE) # "NEW_HEAD"
                      THEN "GitRepoError" ELSE "none",
              repo |-> IF PushFlag(R, b, FALSE) # "REJECTED"
                       THEN [AfterPush(R, b, FALSE) EXCEPT !.upstream[b] = TRUE]
                       ELSE R,
              sent |-> "set_upstream"]
        ELSE [err |-> "none", repo |-> R, sent |-> "none"]

\* new_branch(name, root_commit=root) when the branch does not exist: the
\* branch is created at root, the remote is fetched, and if the remote has a
\* branch of that name the new branch is moved to it and tracks it.
\* Variant: the new branch is always rooted at root, the remote branch of
\* the same name is ignored.
NewBranch_rooted_only(R, name, root) ==
    [FetchNoPrune(R) EXCEPT !.local[name] = FetchNoPrune(R).local[root]]
NewBranch(R, name, root) ==
    LET F == FetchNoPrune(R)
    IN  IF F.track[name] # NoRef
        THEN [F EXCEPT !.local[name] = F.track[name], !.upstream[name] = TRUE]
        ELSE [F EXCEPT !.local[name] = F.local[root]]

\* "git rebase onto" of history h: the commits of h that onto lacks are
\* replayed on top of onto as new commits.
Replay(c) == <<c[1], c[2], c[3] + 1>>
Rebased(h, onto) == onto \cup {Replay(c) : c \in h \ onto}

----------------------------------------------------------------------------
(* Control: calls, returns and raises *)

SetRepo(R) ==
    /\ local' = R.local
    /\ track' = R.track
    /\ remote' = R.remote
    /\ upstream' = R.upstream

Emit(evs) == log' = log \o evs

\* Variant: the exception is caught and the run goes on with the peers.
Raise_swallowed(kind, b) ==
    /\ pc' = "peers"
    /\ err' = kind
    /\ log' = Append(log, <<"raise", b, kind>>)
    /\ por' = "idle"
    /\ cur' = "none"
    /\ allow_reset' = "none"
    /\ status' = "none"
    /\ todo' = todo
    /\ peer_policy' = peer_policy
\* An exception raised while working on branch b leaves update_local_repo:
\* nothing catches it.
Raise(kind, b) ==
    /\ pc' = "failed"
    /\ err' = kind
    /\ log' = Append(log, <<"raise", b, kind>>)
    /\ por' = "idle"
    /\ cur' = "none"
    /\ allow_reset' = "none"
    /\ status' = "none"
    /\ todo' = todo
    /\ peer_policy' = peer_policy

\* pull_or_reset_to_upstream(b, repo, policy) is entered.
CallPor(b, policy) ==
    /\ por' = "called"
    /\ cur' = b
    /\ allow_reset' = policy
    /\ status' = "none"

\* Variant: main is reconciled with policy YES.
MainPolicy_allow == "YES"
\* The reset policy update_local_repo passes for the main branch.
MainPolicy == "NO"

\* Variant: every configured peer branch is visited.
LocalPeers_all(R) == OtherNodeBranchNames
\* Line 142: the branches of other nodes that exist locally.
LocalPeers(R) == {b \in OtherNodeBranchNames : R.local[b] # NoRef}

\* pull_or_reset_to_upstream returns to update_local_repo, which goes on with
\* the node branch (after main), the integration (after node) or the next
\* peer branch.
PorReturn ==
    /\ err' = err
    /\ todo' = todo
    /\ peer_policy' = peer_policy
    /\ IF pc = "main"
       THEN /\ pc' = "node"
            /\ \E policy \in UserAnswer : CallPor(NodeBranch, policy)
       ELSE /\ por' = "idle"
            /\ cur' = "none"
            /\ allow_reset' = "none"
            /\ status' = "none"
            /\ pc' = IF pc = "node" THEN "integrate"
                     ELSE IF pc = "api" THEN "api" ELSE "peers"

----------------------------------------------------------------------------
(* update_local_repo, lines 81-96: the node branch is created if missing *)

CreateNodeBranch ==
    /\ UNCHANGED bvars
    /\ pc = "start"
    /\ UNCHANGED upvars
    /\ UNCHANGED apivars
    /\ UNCHANGED <<active, dirty, por, cur, allow_reset, status, todo, peer_policy,
                   mainAtStart, nodeAtIntegrate>>
    /\ IF local[NodeBranch] # NoRef
       THEN /\ pc' = "fetch"
            /\ UNCHANGED <<local, track, remote, upstream, err, log>>
       ELSE LET N == NewBranch(Repo, NodeBranch, MainBranch)
            IN  IF N.track[NodeBranch] # NoRef
                THEN /\ SetRepo(N)
                     /\ pc' = "fetch"
                     /\ err' = err
                     /\ Emit(<< <<"create", NodeBranch, "tracked">>,
                                <<"fetch", "all", "no_prune">> >>)
                ELSE LET r == PushBranch(N, NodeBranch, FALSE)
                     IN  /\ SetRepo(r.repo)
                         /\ pc' = IF r.err = "none" THEN "fetch" ELSE "failed"
                         /\ err' = r.err
                         /\ Emit(<< <<"create", NodeBranch, "rooted">>,
                                    <<"fetch", "all", "no_prune">>,
                                    <<"push_branch", NodeBranch, "no_force">> >>
                                 \o (IF r.sent = "none" THEN << >>
                                     ELSE << <<"send", NodeBranch, r.sent>> >>)
                                 \o (IF r.err = "none" THEN << >>
                                     ELSE << <<"raise", NodeBranch, r.err>> >>))

\* Variant: the run goes on to main without fetching.
FetchUpdates_skipped ==
    /\ UNCHANGED bvars
    /\ pc = "fetch"
    /\ UNCHANGED upvars
    /\ UNCHANGED apivars
    /\ pc' = "main"
    /\ CallPor(MainBranch, MainPolicy)
    /\ UNCHANGED <<local, track, remote, upstream, log>>
    /\ UNCHANGED <<active, dirty, todo, peer_policy, err, mainAtStart, nodeAtIntegrate>>
(* update_local_repo, line 104, and the first call of line 109 *)
FetchUpdates ==
    /\ UNCHANGED bvars
    /\ pc = "fetch"
    /\ UNCHANGED upvars
    /\ UNCHANGED apivars
    /\ SetRepo(FetchUpdatesIn(Repo))
    /\ pc' = "main"
    /\ CallPor(MainBranch, MainPolicy)
    /\ Emit(<< <<"fetch", "all", "prune">> >>)
    /\ UNCHANGED <<active, dirty, todo, peer_policy, err, mainAtStart, nodeAtIntegrate>>

----------------------------------------------------------------------------
(* pull_or_reset_to_upstream *)

\* Variant: a branch that is ahead of its upstream is updated as well.
NothingToDo_up_to_date_only(st) == st = "UP_TO_DATE"
\* Line 34.
\* Variant: no status calls for an update.
NothingToDo_always(st) == TRUE
NothingToDo(st) == st \in {"UP_TO_DATE", "AHEAD"}

\* Variant: an interactive policy prompts for every branch to update.
Prompts_any_status(st, allow) == allow = "INTERACTIVE"
\* Lines 49-51: the user is asked to confirm the reset.
Prompts(st, allow) == st = "DIVERGED" /\ allow = "INTERACTIVE"

\* Lines 33-50: the status is read; nothing to do, or no upstream.
PorStatus ==
    /\ UNCHANGED bvars
    /\ por = "called"
    /\ UNCHANGED upvars
    /\ UNCHANGED apivars
    /\ UNCHANGED <<local, track, remote, upstream, active, dirty, mainAtStart,
                   nodeAtIntegrate>>
    /\ LET st == BranchStatus(Repo, cur)
       IN  IF st = "RAISES" THEN Raise("GitRepoError", cur)
           ELSE IF NothingToDo(st) THEN PorReturn /\ log' = log
           ELSE IF st = "NO_UPSTREAM" THEN Raise("AssertionError", cur)
           ELSE /\ status' = st
                /\ por' = IF Prompts(st, allow_reset) THEN "asking" ELSE "update"
                /\ UNCHANGED <<pc, cur, allow_reset, todo, peer_policy, err, log>>

\* What the user may type at the prompt, and str.lower() on it.
Inputs == {"y", "yes", "Y", "YES", "n", "no", ""}
Lower(s) == IF s = "Y" THEN "y" ELSE IF s = "YES" THEN "yes" ELSE s

\* user_confirmation_dialog (utils.py, line 124).
user_confirmation_dialog(typed) ==
    IF Lower(typed) \in {"y", "yes"} THEN "YES" ELSE "NO"

\* Lines 51-55: the prompt blocks until the user has answered.
PorAsk ==
    /\ UNCHANGED bvars
    /\ por = "asking"
    /\ UNCHANGED upvars
    /\ UNCHANGED apivars
    /\ \E typed \in Inputs :
          /\ allow_reset' = user_confirmation_dialog(typed)
          /\ Emit(<< <<"ask", cur, user_confirmation_dialog(typed)>> >>)
    /\ por' = "update"
    /\ UNCHANGED <<local, track, remote, upstream, active, dirty, pc, cur,
                   status, todo, peer_policy, err, mainAtStart, nodeAtIntegrate>>

\* Variant: only a denied reset leads to a pull.
UsePull_deny_only(st, allow) == allow = "NO"
\* Variants: the test of line 62 names the wrong answer, or only the status.
UsePull_interactive_pulls(st, allow) == st = "BEHIND" \/ allow = "INTERACTIVE"
UsePull_behind_only(st, allow) == st = "BEHIND"
\* Line 62: pull rather than reset.
UsePull(st, allow) == st = "BEHIND" \/ allow = "NO"

\* Lines 62-66: pull or reset.
PorUpdate ==
    /\ UNCHANGED bvars
    /\ por = "update"
    /\ UNCHANGED upvars
    /\ UNCHANGED apivars
    /\ UNCHANGED <<active, dirty, mainAtStart, nodeAtIntegrate>>
    /\ IF UsePull(status, allow_reset)
       THEN \E treeOk \in (IF active = cur /\ dirty THEN BOOLEAN ELSE {TRUE}) :
              LET r == PullBranch(Repo, cur, treeOk)
              IN  /\ SetRepo(r.repo)
                  /\ IF r.err # "none"
                     THEN Raise(r.err, cur)
                     ELSE PorReturn /\ Emit(<< <<"pull", cur, "ff">> >>)
       ELSE LET r == ResetBranch(Repo, cur, track[cur])
            IN  /\ SetRepo(r.repo)
                /\ IF r.err # "none"
                   THEN Raise(r.err, cur)
                   ELSE PorReturn /\ Emit(<< <<"reset", cur, "upstream">> >>)

----------------------------------------------------------------------------
(* GitRepo.merge_branch and rebase_branch *)

\* What the fallback of merge_branch (lines 534-544) can meet when it merges
\* from into b: "ok"; "conflict", a true merge that stops on conflicts and
\* leaves a merge in progress; "refused", git declining to start because the
\* uncommitted changes would be overwritten; "no_switch", switch_to_branch
\* failing to check b out over the uncommitted changes.  The fast path runs
\* no git command and has one outcome.
\* switch(branch_name) with a the active branch: the branch that is checked
\* out afterwards.  ok: git can check the branch out (it refuses when
\* uncommitted changes would be overwritten).
Switch(a, branch_name, ok) ==
    IF branch_name = a THEN a ELSE IF ok THEN branch_name ELSE a

\* Variant: the context manager does not switch back.
SwitchToBranch_stays(a, branch_or_refspec, revert_on_exit) == branch_or_refspec
\* switch_to_branch(branch_or_refspec, revert_on_exit) entered with a as the
\* active branch: the branch that is active once the block has been left, by
\* a return or by an exception.  The files that kept git from neither
\* checking the branch out nor running the block are the same in both
\* branches, so the checkout of the finally clause is not refused.
SwitchToBranch(a, branch_or_refspec, revert_on_exit) ==
    IF revert_on_exit
    THEN Switch(Switch(a, branch_or_refspec, TRUE), a, TRUE)
    ELSE Switch(a, branch_or_refspec, TRUE)

MergeOutcomes(R, b, from) ==
    LET st == Classify(R.local[b], from)
    IN  IF st = "BEHIND" /\ ~(active = b /\ dirty) THEN {"ok"}
        ELSE {"ok"}
             \cup (IF st = "DIVERGED" THEN {"conflict"} ELSE {})
             \cup (IF dirty /\ st \in {"BEHIND", "DIVERGED"} THEN {"refused"} ELSE {})
             \cup (IF dirty /\ active # b THEN {"no_switch"} ELSE {})

\* "git merge --abort" (line 538): it fails when no merge is in progress.
MergeAbort(inProgress) == IF inProgress THEN "none" ELSE "GitCommandError"

\* Variant: no fast path, "git merge --no-ff" makes a merge commit.
MergeBranch_merge_commit(R, b, from, gitOk) ==
    [err |-> "none",
     repo |-> [R EXCEPT !.local[b] =
                  R.local[b] \cup from \cup {<<"merge", Cardinality(from), 0>>}]]
\* Variant: a refused reset on the fast path is not caught.
MergeBranch_no_fallback(R, b, from, gitOk) ==
    IF Classify(R.local[b], from) = "BEHIND"
    THEN ResetBranch(R, b, from)
    ELSE [err |-> "GitRepoError", repo |-> R]
\* merge_branch(b, branch_to_merge) where from is the history of the branch
\* to merge and gitOk one of MergeOutcomes.  A branch that is exactly behind
\* is reset to it; if that reset is refused (b is checked out and the tree
\* is dirty), or b is not behind, "git merge" runs on b.  When it fails the
\* handler runs "git merge --abort" and raises GitRepoError, unless the abort
\* itself fails: then the abort's GitCommandError is what propagates.
MergeBranch(R, b, from, gitOk) ==
    LET st == Classify(R.local[b], from)
        fast == ResetBranch(R, b, from)
        merged == IF st \in {"BEHIND", "UP_TO_DATE"} THEN from
                  ELSE IF st = "AHEAD" THEN R.local[b]
                  ELSE R.local[b] \cup from \cup {<<"merge", Cardinality(from), 0>>}
        abort == MergeAbort(gitOk = "conflict")
    IN  IF st = "BEHIND" /\ fast.err = "none" THEN fast
        ELSE IF gitOk = "ok" THEN [err |-> "none", repo |-> [R EXCEPT !.local[b] = merged]]
        ELSE IF gitOk = "no_switch" THEN [err |-> "GitRepoError", repo |-> R]
        ELSE IF abort # "none" THEN [err |-> abort, repo |-> R]
        ELSE [err |-> "GitRepoError", repo |-> R]

\* The active branch after merge_branch(b, branch_to_merge): the fast path
\* checks nothing out; "git merge" runs inside switch_to_branch(b), unless
\* the checkout on entry is refused.
MergeActive(R, b, from, gitOk) ==
    IF Classify(R.local[b], from) = "BEHIND" /\ ResetBranch(R, b, from).err = "none"
    THEN active
    ELSE IF gitOk = "no_switch" THEN Switch(active, b, FALSE)
    ELSE SwitchToBranch(active, b, TRUE)

\* The active branch after rebase_branch(b, rebase_location): "git rebase"
\* runs inside switch_to_branch(b).
RebaseActive(b) == SwitchToBranch(active, b, TRUE)

\* "git rebase --abort" (line 501): it fails when no rebase is in progress.
RebaseAbort(inProgress) == IF inProgress THEN "none" ELSE "GitCommandError"

\* rebase_branch(b, rebase_location, with_fetch=False), onto being the tip
\* "rebase_location" names; gitOk: "git rebase" meets no conflict.  git
\* declines to start a rebase over uncommitted changes, and then there is no
\* rebase for the handler to abort.  The branch that was active is checked
\* out again on both exits.
RebaseBranch(R, b, onto, gitOk) ==
    IF dirty THEN [err |-> RebaseAbort(FALSE), repo |-> R]
    ELSE IF gitOk
    THEN [err |-> "none", repo |-> [R EXCEPT !.local[b] = Rebased(R.local[b], onto)]]
    ELSE [err |-> IF RebaseAbort(TRUE) = "none" THEN "GitRepoError" ELSE RebaseAbort(TRUE),
          repo |-> R]

----------------------------------------------------------------------------
(* update_local_repo, lines 113-137: integration of main into the node branch *)

\* Line 113.
Integrate ==
    /\ UNCHANGED bvars
    /\ pc = "integrate"
    /\ UNCHANGED upvars
    /\ UNCHANGED apivars
    /\ LET st == BranchStatusWith(Repo, NodeBranch, MainBranch)
       IN  /\ status' = IF st \in {"BEHIND", "DIVERGED"} THEN st ELSE "none"
           /\ pc' = IF st = "BEHIND" THEN "merge"
                    ELSE IF st = "DIVERGED" THEN "rebase"
                    ELSE "peers"
           /\ todo' = IF st \in {"BEHIND", "DIVERGED"} THEN todo ELSE LocalPeers(Repo)
    /\ nodeAtIntegrate' = local[NodeBranch]
    /\ UNCHANGED <<local, track, remote, upstream, active, dirty, por, cur,
                   allow_reset, peer_policy, err, log, mainAtStart>>

\* Line 116.
MergeMain ==
    /\ UNCHANGED bvars
    /\ pc = "merge"
    /\ UNCHANGED upvars
    /\ UNCHANGED apivars
    /\ \E gitOk \in MergeOutcomes(Repo, NodeBranch, local[MainBranch]) :
          LET r == MergeBranch(Repo, NodeBranch, local[MainBranch], gitOk)
          IN  /\ SetRepo(r.repo)
              /\ err' = r.err
              /\ pc' = IF r.err = "none" THEN "push_merged" ELSE "failed"
              /\ status' = IF r.err = "none" THEN status ELSE "none"
              /\ log' = IF r.err = "none"
                        THEN Append(log, <<"merge", NodeBranch, MainBranch>>)
                        ELSE Append(log, <<"raise", NodeBranch, r.err>>)
              /\ active' = MergeActive(Repo, NodeBranch, local[MainBranch], gitOk)
    /\ UNCHANGED <<dirty, por, cur, allow_reset, todo, peer_policy,
                   mainAtStart, nodeAtIntegrate>>

\* Variant: the rebase goes onto the tip main had before it was pulled.
RebaseLocation_stale == mainAtStart
\* The tip that "rebase_location=main_branch" names when the rebase runs.
RebaseLocation == local[MainBranch]

\* Lines 124-129.
\* Variant: the repository is never found dirty.
IsDirty_never == FALSE
\* Line 124: repo.is_dirty().
IsDirty == dirty

RebaseOnMain ==
    /\ UNCHANGED bvars
    /\ pc = "rebase"
    /\ UNCHANGED upvars
    /\ UNCHANGED apivars
    /\ IF IsDirty
       THEN /\ err' = "ValueError"
            /\ pc' = "failed"
            /\ status' = "none"
            /\ log' = Append(log, <<"raise", NodeBranch, "ValueError">>)
            /\ UNCHANGED <<local, track, remote, upstream, active>>
       ELSE \E gitOk \in BOOLEAN :
              LET r == RebaseBranch(Repo, NodeBranch, RebaseLocation, gitOk)
              IN  /\ SetRepo(r.repo)
                  /\ err' = r.err
                  /\ pc' = IF r.err = "none" THEN "push_rebased" ELSE "failed"
                  /\ status' = IF r.err = "none" THEN status ELSE "none"
                  /\ log' = IF r.err = "none"
                            THEN Append(log, <<"rebase", NodeBranch, MainBranch>>)
                            ELSE Append(log, <<"raise", NodeBranch, r.err>>)
                  /\ active' = RebaseActive(NodeBranch)
    /\ UNCHANGED <<dirty, por, cur, allow_reset, todo, peer_policy,
                   mainAtStart, nodeAtIntegrate>>

\* Variant: force is allowed after the merge as well.
AllowForce_always(at) == TRUE
\* allow_force of the push_branch call that follows the merge (line 118) and
\* the rebase (line 131).
AllowForce(at) == at = "push_rebased"

\* Lines 118 and 131.
PushNode ==
    /\ UNCHANGED bvars
    /\ pc \in {"push_merged", "push_rebased"}
    /\ UNCHANGED upvars
    /\ UNCHANGED apivars
    /\ LET r == PushBranch(Repo, NodeBranch, AllowForce(pc))
       IN  /\ SetRepo(r.repo)
           /\ err' = r.err
           /\ pc' = IF r.err = "none" THEN "peers" ELSE "failed"
           /\ todo' = IF r.err = "none" THEN LocalPeers(Repo) ELSE todo
           /\ Emit(<< <<"push_branch", NodeBranch,
                        IF AllowForce(pc) THEN "force_allowed" ELSE "no_force">> >>
                   \o (IF r.sent = "none" THEN << >>
                       ELSE << <<"send", NodeBranch, r.sent>> >>)
                   \o (IF r.err = "none" THEN << >>
                       ELSE << <<"raise", NodeBranch, r.err>> >>))
    /\ status' = "none"
    /\ UNCHANGED <<active, dirty, por, cur, allow_reset, peer_policy, mainAtStart, nodeAtIntegrate>>

----------------------------------------------------------------------------
(* update_local_repo, lines 142-145: the branches of the other nodes *)

\* The next branch of the loop, in the arbitrary order of a Python set; the
\* configured policy is the same at every iteration.
\* Variant: the loop does not consume the branch it has visited.
Remaining_same(branches, b) == branches
\* Line 142: the for loop takes each member of the set once.
Remaining(branches, b) == branches \ {b}

NextPeer ==
    /\ UNCHANGED bvars
    /\ pc = "peers"
    /\ todo # {}
    /\ UNCHANGED upvars
    /\ UNCHANGED apivars
    /\ \E b \in todo, policy \in UserAnswer :
          /\ peer_policy \in {"none", policy}
          /\ peer_policy' = policy
          /\ todo' = Remaining(todo, b)
          /\ CallPor(b, policy)
    /\ pc' = "peer"
    /\ UNCHANGED <<local, track, remote, upstream, active, dirty, err, log,
                   mainAtStart, nodeAtIntegrate>>

\* update_local_repo returns.
Return ==
    /\ UNCHANGED bvars
    /\ pc = "peers"
    /\ todo = {}
    /\ UNCHANGED upvars
    /\ UNCHANGED apivars
    /\ pc' = "done"
    /\ peer_policy' = "none"
    /\ UNCHANGED <<local, track, remote, upstream, active, dirty, por, cur,
                   allow_reset, status, todo, err, log, mainAtStart, nodeAtIntegrate>>

----------------------------------------------------------------------------
(* The repositories a run may start from *)

\* The remote's copy of the node branch, given the local one.
NodeRemotes(nl, k) ==
    IF nl = NoRef
    THEN {NoRef, Chain(1), Chain(k) \cup {RN}}
    ELSE {NoRef, nl, nl \ {LN}, (nl \ {LN}) \cup {RN}}

\* A peer branch locally and on the remote.
PeerStates(b) ==
    IF b = "p1"
    THEN {<<NoRef, Chain(1)>>, <<Chain(1), Chain(1)>>,
          <<Chain(1), Chain(1) \cup {RP(b)}>>,
          <<Chain(1) \cup {LP(b)}, Chain(1)>>,
          <<Chain(1) \cup {LP(b)}, Chain(1) \cup {RP(b)}>>}
    ELSE {<<NoRef, Chain(1)>>,
          <<Chain(1) \cup {LP(b)}, Chain(1) \cup {RP(b)}>>}

\* No build is under way.
BuildIdle ==
    /\ pkgs_to_build = << >>
    /\ eb_tmp = FALSE
    /\ buildpath = FALSE
    /\ initial_branch = "none"

Init ==
    /\ BuildIdle
    /\ \E k2 \in {MaxMain} :
       \E k1 \in 1..k2, e \in SUBSET {LM}, j \in 1..k2, f \in SUBSET {LN} :
       \E nl \in {NoRef, Chain(j) \cup f} :
       \E nr \in NodeRemotes(nl, k2), tm \in {Chain(k1), Chain(k2)} :
       \E tn \in (IF nl = NoRef THEN {nr, NoRef, Chain(1)} ELSE {nr}) :
       \E ps \in [OtherNodeBranchNames -> UNION {PeerStates(b) : b \in OtherNodeBranchNames}] :
          /\ \A b \in OtherNodeBranchNames : ps[b] \in PeerStates(b)
          /\ local = [b \in BranchNames |->
                        IF b = MainBranch THEN Chain(k1) \cup e
                        ELSE IF b = NodeBranch THEN nl ELSE ps[b][1]]
          /\ remote = [b \in BranchNames |->
                        IF b = MainBranch THEN Chain(k2)
                        ELSE IF b = NodeBranch THEN nr ELSE ps[b][2]]
          /\ track = [b \in BranchNames |->
                        IF b = MainBranch THEN tm
                        ELSE IF b = NodeBranch THEN tn ELSE ps[b][2]]
          /\ upstream = [b \in BranchNames |->
                        IF b = MainBranch THEN TRUE
                        ELSE IF b = NodeBranch THEN nl # NoRef /\ nr # NoRef
                        ELSE ps[b][1] # NoRef]
    /\ active \in {b \in BranchNames \ {"p2"} : local[b] # NoRef}
    /\ dirty \in BOOLEAN
    /\ pc = "start"
    /\ por = "idle"
    /\ cur = "none"
    /\ allow_reset = "none"
    /\ status = "none"
    /\ todo = {}
    /\ peer_policy = "none"
    /\ err = "none"
    /\ log = << >>
    /\ mainAtStart = local[MainBranch]
    /\ nodeAtIntegrate = NoRef
    /\ official = [b \in {} |-> NoRef]
    /\ ebTrack = [b \in {} |-> NoRef]
    /\ eb_remote = FALSE
    /\ mirror = << >>
    /\ delete_branch_upon_completion = FALSE
    /\ call = NoCall
    /\ result = <<"none", "none">>

Next ==
    \/ CreateNodeBranch
    \/ FetchUpdates
    \/ PorStatus
    \/ PorAsk
    \/ PorUpdate
    \/ Integrate
    \/ MergeMain
    \/ RebaseOnMain
    \/ PushNode
    \/ NextPeer
    \/ Return

Spec == Init /\ [][Next]_vars

\* A run in which every git command and the confirmation prompt return: a
\* step that can be taken is taken.
SpecLive == Init /\ [][Next]_vars /\ WF_vars(Next)

----------------------------------------------------------------------------
(* update_from_easybuild_upstream *)

\* repo.main_branch_name of the easyconfigs repository (config.py, line 17),
\* and the branches the loop of line 172 mirrors.
EasyconfigsMainBranch == "develop"
MirroredBranches == <<EasyconfigsMainBranch, "main">>
MirrorNames == {MirroredBranches[i] : i \in DOMAIN MirroredBranches}

\* A commit that is on the SIB remote and not on the official one.
SIBC == <<"SIB", 1, 0>>

\* "x == y" of Python for a member x of the Enum Status and a bool y: an
\* Enum member equals nothing but itself.
EnumEqualsBool(x, y) == FALSE

\* Line 206: status in (Status.DIVERGED, status is Status.AHEAD).
InErrorStatuses(st) == st = "DIVERGED" \/ EnumEqualsBool(st, st = "AHEAD")

UpRaise(kind, b) ==
    /\ pc' = "failed"
    /\ err' = kind
    /\ status' = "none"
    /\ log' = Append(log, <<"raise", b, kind>>)

\* Lines 156-166: the official remote is registered if need be, and all
\* remotes are fetched.
UpFetch ==
    /\ UNCHANGED bvars
    /\ pc = "up_start"
    /\ eb_remote' = TRUE
    /\ track' = remote
    /\ ebTrack' = official
    /\ pc' = "up_loop"
    /\ log' = log \o (IF eb_remote THEN << >>
                      ELSE << <<"create_remote", "eb-source", "">> >>)
                  \o << <<"fetch", "all", "prune">> >>
    /\ UNCHANGED <<local, remote, upstream, active, dirty, status, err,
                   official, mirror, delete_branch_upon_completion>>
    /\ UNCHANGED lvars
    /\ UNCHANGED apivars

\* Lines 172-180 and 206-213: the SIB remote's branch against the official
\* remote's branch.
UpClassify ==
    /\ UNCHANGED bvars
    /\ pc = "up_loop"
    /\ mirror # << >>
    /\ LET b == Head(mirror)
           st == Classify(track[b], ebTrack[b])
       IN  IF st = "BEHIND"
           THEN /\ pc' = "up_prepare"
                /\ status' = st
                /\ UNCHANGED <<mirror, err, log>>
           ELSE IF InErrorStatuses(st)
           THEN UpRaise("ValueError", b) /\ mirror' = mirror
           ELSE /\ mirror' = Tail(mirror)
                /\ UNCHANGED <<pc, status, err, log>>
    /\ UNCHANGED <<local, track, remote, upstream, active, dirty, official,
                   ebTrack, eb_remote, delete_branch_upon_completion>>
    /\ UNCHANGED lvars
    /\ UNCHANGED apivars

\* Lines 188-194: the local branch is brought up to date with the SIB
\* remote, or created from it.
UpPrepare ==
    /\ UNCHANGED bvars
    /\ pc = "up_prepare"
    /\ LET b == Head(mirror)
       IN  IF local[b] # NoRef
           THEN /\ delete_branch_upon_completion' = FALSE
                /\ IF BranchStatus(Repo, b) # "UP_TO_DATE"
                   THEN \E treeOk \in (IF active = b /\ dirty THEN BOOLEAN ELSE {TRUE}) :
                          LET r == PullBranch(FetchUpdatesIn(Repo), b, treeOk)
                          IN  /\ SetRepo(r.repo)
                              /\ IF r.err # "none"
                                 THEN UpRaise(r.err, b)
                                 ELSE /\ pc' = "up_merge"
                                      /\ log' = IF r.repo.local = local THEN log
                                                ELSE Append(log, <<"pull", b, "ff">>)
                                      /\ UNCHANGED <<status, err>>
                   ELSE /\ pc' = "up_merge"
                        /\ UNCHANGED <<local, track, remote, upstream, status, err, log>>
           ELSE /\ delete_branch_upon_completion' = TRUE
                /\ SetRepo(NewBranch(Repo, b, active))
                /\ pc' = "up_merge"
                /\ log' = Append(log, <<"create", b, "tracked">>)
                /\ UNCHANGED <<status, err>>
    /\ UNCHANGED <<active, dirty, official, ebTrack, eb_remote, mirror>>
    /\ UNCHANGED lvars
    /\ UNCHANGED apivars

\* "git branch -d b" of line 204: refused for a branch that is not merged
\* into its upstream, or into HEAD when it has no upstream.
DeleteBranch(R, b) ==
    IF R.local[b] \subseteq (IF R.upstream[b] THEN R.track[b] ELSE R.local[active])
    THEN [err |-> "none", repo |-> [R EXCEPT !.local[b] = NoRef, !.upstream[b] = FALSE]]
    ELSE [err |-> "GitCommandError", repo |-> R]

\* The finally clause of lines 202-204 after a step that ended in R with
\* error e.
Finally(R, e, b) ==
    IF delete_branch_upon_completion
    THEN LET d == DeleteBranch(R, b)
         IN  [err |-> IF d.err # "none" THEN d.err ELSE e, repo |-> d.repo]
    ELSE [err |-> e, repo |-> R]

\* Line 199.
UpMerge ==
    /\ UNCHANGED bvars
    /\ pc = "up_merge"
    /\ LET b == Head(mirror)
       IN  \E gitOk \in MergeOutcomes(Repo, b, ebTrack[b]) :
              LET r == MergeBranch(Repo, b, ebTrack[b], gitOk)
                  f == Finally(r.repo, r.err, b)
              IN  /\ IF r.err = "none"
                     THEN /\ SetRepo(r.repo)
                          /\ pc' = "up_push"
                          /\ log' = Append(log, <<"merge", b, "eb-source">>)
                          /\ UNCHANGED <<status, err>>
                     ELSE /\ SetRepo(f.repo)
                          /\ UpRaise(f.err, b)
                  /\ active' = MergeActive(Repo, b, ebTrack[b], gitOk)
    /\ UNCHANGED <<dirty, official, ebTrack, eb_remote, mirror,
                   delete_branch_upon_completion>>
    /\ UNCHANGED lvars
    /\ UNCHANGED apivars

\* Lines 201-204.
UpPush ==
    /\ UNCHANGED bvars
    /\ pc = "up_push"
    /\ LET b == Head(mirror)
           r == PushBranch(Repo, b, FALSE)
           f == Finally(r.repo, r.err, b)
           evs == << <<"push_branch", b, "no_force">> >>
                  \o (IF r.sent = "none" THEN << >> ELSE << <<"send", b, r.sent>> >>)
                  \o (IF delete_branch_upon_completion /\ f.repo.local[b] = NoRef
                      THEN << <<"delete", b, "">> >> ELSE << >>)
       IN  /\ SetRepo(f.repo)
           /\ err' = f.err
           /\ status' = "none"
           /\ IF f.err = "none"
              THEN /\ pc' = "up_loop"
                   /\ mirror' = Tail(mirror)
                   /\ log' = log \o evs
              ELSE /\ pc' = "failed"
                   /\ mirror' = mirror
                   /\ log' = log \o evs \o << <<"raise", b, f.err>> >>
    /\ UNCHANGED <<active, dirty, official, ebTrack, eb_remote,
                   delete_branch_upon_completion>>
    /\ UNCHANGED lvars
    /\ UNCHANGED apivars

\* update_from_easybuild_upstream returns.
UpReturn ==
    /\ UNCHANGED bvars
    /\ pc = "up_loop"
    /\ mirror = << >>
    /\ pc' = "done"
    /\ UNCHANGED <<local, track, remote, upstream, active, dirty, status, err, log>>
    /\ UNCHANGED upvars
    /\ UNCHANGED lvars
    /\ UNCHANGED apivars

\* A mirrored branch on the SIB remote and locally, the official branch
\* being the main line.
MirrorStates(b) ==
    {<<l, r>> : l \in {NoRef, Chain(1), Chain(1) \cup {LM}}, r \in {Chain(1)}}
    \cup
    UNION {{<<l, Chain(k) \cup c>> :
               l \in {NoRef, Chain(k) \cup c, Chain(1), Chain(k) \cup c \cup {LM}}} :
              k \in 1..MaxMain, c \in SUBSET {SIBC}}

InitUpstream ==
    /\ BuildIdle
    /\ \E ms \in [MirrorNames -> UNION {MirrorStates(b) : b \in MirrorNames}] :
          /\ ms[EasyconfigsMainBranch][1] # NoRef
          /\ local = [b \in MirrorNames |-> ms[b][1]]
          /\ remote = [b \in MirrorNames |-> ms[b][2]]
          /\ upstream = [b \in MirrorNames |-> ms[b][1] # NoRef]
    /\ track \in {remote, [b \in MirrorNames |-> Chain(1)]}
    /\ official = [b \in MirrorNames |-> Chain(MaxMain)]
    /\ eb_remote \in BOOLEAN
    /\ ebTrack = [b \in MirrorNames |-> IF eb_remote THEN Chain(1) ELSE NoRef]
    /\ active \in {b \in MirrorNames : local[b] # NoRef}
    /\ dirty \in BOOLEAN
    /\ pc = "up_start"
    /\ mirror = MirroredBranches
    /\ delete_branch_upon_completion = FALSE
    /\ call = NoCall
    /\ result = <<"none", "none">>
    /\ status = "none"
    /\ err = "none"
    /\ log = << >>
    /\ por = "idle"
    /\ cur = "none"
    /\ allow_reset = "none"
    /\ todo = {}
    /\ peer_policy = "none"
    /\ mainAtStart = local[EasyconfigsMainBranch]
    /\ nodeAtIntegrate = NoRef

NextUpstream ==
    \/ UpFetch
    \/ UpClassify
    \/ UpPrepare
    \/ UpMerge
    \/ UpPush
    \/ UpReturn

SpecUpstream == InitUpstream /\ [][NextUpstream]_vars

\* The SIB remote is shared: while update_from_easybuild_upstream runs,
\* another clone pushes a commit to a mirrored branch, after this run's
\* fetch and before its push (line 201).
OtherClonePushes ==
    /\ UNCHANGED bvars
    /\ pc \in {"up_loop", "up_prepare", "up_merge", "up_push"}
    /\ \E b \in MirrorNames :
          /\ remote[b] # NoRef
          /\ SIBC \notin remote[b]
          /\ remote' = [remote EXCEPT ![b] = @ \cup {SIBC}]
    /\ UNCHANGED <<local, track, upstream, active, dirty, pc, status, err, log>>
    /\ UNCHANGED upvars
    /\ UNCHANGED lvars
    /\ UNCHANGED apivars

NextUpstreamShared ==
    \/ UpFetch
    \/ UpClassify
    \/ UpPrepare
    \/ UpMerge
    \/ UpPush
    \/ UpReturn
    \/ OtherClonePushes

SpecUpstreamShared == InitUpstream /\ [][NextUpstreamShared]_vars

----------------------------------------------------------------------------
(* The methods of GitRepo and pull_or_reset_to_upstream, called one after   *)
(* the other by a client on a repository in any state                       *)

\* The branches of the client's repository, "p1" being a name no branch
\* has, and the branch it pushes, pulls and reconciles.
ApiBranches == {MainBranch, NodeBranch}
ApiNames == ApiBranches \cup {"p1"}
ApiTargets == {NodeBranch}

\* A commit that reached the remote after the last fetch.
RX == <<"RX", 1, 0>>

\* branch_status(a, branch_to_compare_with=cmp), cmp = "" standing for the
\* omitted argument: the relation, or the GitRepoError of lines 113 and 157.
BranchStatusCall(R, a, cmp) ==
    IF cmp = ""
    THEN IF R.local[a] = NoRef THEN "GitRepoError"
         ELSE IF BranchStatus(R, a) = "RAISES" THEN "GitRepoError"
         ELSE BranchStatus(R, a)
    ELSE IF R.local[a] = NoRef \/ R.local[cmp] = NoRef THEN "GitRepoError"
         ELSE BranchStatusWith(R, a, cmp)

\* The record of a call of op on b; nth tells a call that repeats the
\* previous one (same method, same branch) from a first call.
ApiCall(op, b) ==
    [NoCall EXCEPT !.op = op, !.branch_name = b,
                   !.nth = IF /\ op = "pull_or_reset_to_upstream"
                              /\ call.op = op
                              /\ call.branch_name = b
                           THEN 2 ELSE 1]

\* The client is between two calls.
ApiIdle == pc = "api" /\ por = "idle"

\* push_branch and pull_branch are called with with_fetch=False; a client
\* that wants the fetch calls fetch_updates first.
ApiBranchStatus ==
    /\ UNCHANGED bvars
    /\ ApiIdle
    /\ \E a \in ApiNames, cmp \in {""} \cup ApiNames :
          /\ call' = [ApiCall("branch_status", a) EXCEPT !.branch_to_compare_with = cmp]
          /\ result' = <<BranchStatusCall(Repo, a, cmp), "none">>
    /\ UNCHANGED <<local, track, remote, upstream, active, dirty, pc, status, err, log>>
    /\ UNCHANGED lvars
    /\ UNCHANGED upvars

ApiFetchUpdates ==
    /\ UNCHANGED bvars
    /\ ApiIdle
    /\ SetRepo(FetchUpdatesIn(Repo))
    /\ call' = ApiCall("fetch_updates", "none")
    /\ result' = <<"ok", "none">>
    /\ UNCHANGED <<active, dirty, pc, status, err, log>>
    /\ UNCHANGED lvars
    /\ UNCHANGED upvars

ApiPushBranch ==
    /\ UNCHANGED bvars
    /\ ApiIdle
    /\ \E b \in ApiTargets, allow_force \in BOOLEAN :
          LET r == PushBranch(Repo, b, allow_force)
          IN  /\ SetRepo(r.repo)
              /\ call' = [ApiCall("push_branch", b) EXCEPT !.allow_force = allow_force]
              /\ result' = <<IF r.err = "none" THEN "ok" ELSE r.err, r.sent>>
    /\ UNCHANGED <<active, dirty, pc, status, err, log>>
    /\ UNCHANGED lvars
    /\ UNCHANGED upvars

ApiPullBranch ==
    /\ UNCHANGED bvars
    /\ ApiIdle
    /\ \E b \in ApiTargets,
          error_on_missing_upstream \in BOOLEAN, error_on_diverged \in BOOLEAN :
       \E treeOk \in (IF active = b /\ dirty THEN BOOLEAN ELSE {TRUE}) :
          LET r == PullBranchWith(Repo, b, treeOk,
                                  error_on_missing_upstream, error_on_diverged)
          IN  /\ SetRepo(r.repo)
              /\ call' = [ApiCall("pull_branch", b) EXCEPT
                             !.error_on_missing_upstream = error_on_missing_upstream,
                             !.error_on_diverged = error_on_diverged]
              /\ result' = <<IF r.err = "none" THEN "ok" ELSE r.err, "none">>
    /\ UNCHANGED <<active, dirty, pc, status, err, log>>
    /\ UNCHANGED lvars
    /\ UNCHANGED upvars

\* The references a client resets a branch to, and the commit each names.
ResetRefs == {MainBranch, "origin/node"}
RefHistory(R, ref) == IF ref = MainBranch THEN R.local[MainBranch] ELSE R.track[NodeBranch]

\* The reset_branch calls the client has made.
Resets == {i \in DOMAIN log : log[i][1] = "reset_branch"}

\* reset_branch(branch, ref_to_reset_to) on a reference that exists.
ApiResetBranch ==
    /\ UNCHANGED bvars
    /\ ApiIdle
    /\ Cardinality(Resets) < MaxResets
    /\ \E b \in ApiTargets, ref \in ResetRefs :
          /\ RefHistory(Repo, ref) # NoRef
          /\ LET r == ResetBranch(Repo, b, RefHistory(Repo, ref))
             IN  /\ SetRepo(r.repo)
                 /\ call' = [ApiCall("reset_branch", b) EXCEPT !.ref_to_reset_to = ref]
                 /\ result' = <<IF r.err = "none" THEN "ok" ELSE r.err, "none">>
                 /\ log' = Append(log, <<"reset_branch", b, ref>>)
    /\ UNCHANGED <<active, dirty, pc, status, err>>
    /\ UNCHANGED lvars
    /\ UNCHANGED upvars

\* pull_or_reset_to_upstream is entered; PorStatus, PorAsk and PorUpdate run
\* it, and an exception it raises ends the client.
ApiPullOrReset ==
    /\ UNCHANGED bvars
    /\ ApiIdle
    /\ \E b \in ApiTargets, policy \in UserAnswer :
          /\ CallPor(b, policy)
          /\ call' = [ApiCall("pull_or_reset_to_upstream", b) EXCEPT !.allow_reset = policy]
    /\ result' = <<"pending", "none">>
    /\ UNCHANGED <<local, track, remote, upstream, active, dirty, pc, err, log,
                   todo, peer_policy, mainAtStart, nodeAtIntegrate>>
    /\ UNCHANGED upvars

\* The node branch's tracking configuration and its copy on the remote:
\* without an upstream (on the remote or not), or tracked, the remote being
\* where the last fetch saw it, one commit further, or deleted.
TrackStates ==
    {<<FALSE, NoRef, NoRef>>, <<FALSE, NoRef, Chain(1)>>}
    \cup {<<TRUE, t, t>> : t \in {Chain(1), Chain(2), Chain(1) \cup {RN}}}
    \cup {<<TRUE, t, t \cup {RX}>> : t \in {Chain(1), Chain(2), Chain(1) \cup {RN}}}
    \cup {<<TRUE, t, NoRef>> : t \in {Chain(1), Chain(2), Chain(1) \cup {RN}}}

InitApi ==
    /\ BuildIdle
    /\ \E lm \in {Chain(1), Chain(2)},
          ln \in {Chain(1), Chain(2), Chain(MaxMain), Chain(1) \cup {LN}},
          ts \in TrackStates :
          /\ local = [b \in BranchNames |->
                        IF b = MainBranch THEN lm ELSE IF b = NodeBranch THEN ln ELSE NoRef]
          /\ track = [b \in BranchNames |->
                        IF b = MainBranch THEN Chain(2)
                        ELSE IF b = NodeBranch THEN ts[2] ELSE NoRef]
          /\ remote = [b \in BranchNames |->
                        IF b = MainBranch THEN Chain(2)
                        ELSE IF b = NodeBranch THEN ts[3] ELSE NoRef]
          /\ upstream = [b \in BranchNames |->
                        IF b = MainBranch THEN TRUE
                        ELSE IF b = NodeBranch THEN ts[1] ELSE FALSE]
    /\ active \in ApiBranches
    /\ dirty \in BOOLEAN
    /\ pc = "api"
    /\ por = "idle"
    /\ cur = "none"
    /\ allow_reset = "none"
    /\ status = "none"
    /\ todo = {}
    /\ peer_policy = "none"
    /\ err = "none"
    /\ log = << >>
    /\ mainAtStart = local[MainBranch]
    /\ nodeAtIntegrate = NoRef
    /\ official = [b \in {} |-> NoRef]
    /\ ebTrack = [b \in {} |-> NoRef]
    /\ eb_remote = FALSE
    /\ mirror = << >>
    /\ delete_branch_upon_completion = FALSE
    /\ call = NoCall
    /\ result = <<"none", "none">>

NextApi ==
    \/ ApiBranchStatus
    \/ ApiFetchUpdates
    \/ ApiPushBranch
    \/ ApiPullBranch
    \/ ApiResetBranch
    \/ ApiPullOrReset
    \/ PorStatus
    \/ PorAsk
    \/ PorUpdate

SpecApi == InitApi /\ [][NextApi]_vars

-----------------------------------------------------------------------------
(* update_local_repo against a remote that other nodes push to *)

\* Another node pushes a commit to the node branch of the remote while
\* update_local_repo runs, after the fetch of line 104.
OtherNodePushes ==
    /\ UNCHANGED bvars
    /\ pc \notin {"start", "fetch", "done", "failed"}
    /\ remote[NodeBranch] # NoRef
    /\ RX \notin remote[NodeBranch]
    /\ remote' = [remote EXCEPT ![NodeBranch] = @ \cup {RX}]
    /\ UNCHANGED <<local, track, upstream, active, dirty, pc, status, err, log>>
    /\ UNCHANGED lvars
    /\ UNCHANGED upvars
    /\ UNCHANGED apivars

NextShared ==
    \/ CreateNodeBranch
    \/ FetchUpdates
    \/ PorStatus
    \/ PorAsk
    \/ PorUpdate
    \/ Integrate
    \/ MergeMain
    \/ RebaseOnMain
    \/ PushNode
    \/ NextPeer
    \/ Return
    \/ OtherNodePushes

SpecShared == Init /\ [][NextShared]_vars

-----------------------------------------------------------------------------
(* update_local_repo in a first clone, then in a fresh clone of the remote *)

\* The first run created the node branch from main and published it.
CreatedAndPublished ==
    /\ \E i \in DOMAIN log : log[i] = <<"create", NodeBranch, "rooted">>
    /\ \E i \in DOMAIN log : log[i] = <<"send", NodeBranch, "set_upstream">>
    /\ remote[NodeBranch] # NoRef

\* A clone was made of the remote as a run that ended in one of ends left it.
Cloned(ends) == \E e \in ends, i \in DOMAIN log : log[i] = <<"clone", "all", e>>

\* After the first run has ended, the remote is cloned afresh and
\* update_local_repo starts in the clone: the clone has the main branch only,
\* checked out and clean, and a remote-tracking ref for every branch of the
\* remote.
FreshClone ==
    /\ UNCHANGED bvars
    /\ pc \in {"done", "failed"}
    /\ ~Cloned({"done", "failed"})
    /\ CreatedAndPublished
    /\ local' = [b \in BranchNames |-> IF b = MainBranch THEN remote[b] ELSE NoRef]
    /\ track' = remote
    /\ upstream' = [b \in BranchNames |-> b = MainBranch]
    /\ active' = MainBranch
    /\ dirty' = FALSE
    /\ pc' = "start"
    /\ por' = "idle"
    /\ cur' = "none"
    /\ allow_reset' = "none"
    /\ status' = "none"
    /\ todo' = {}
    /\ peer_policy' = "none"
    /\ err' = "none"
    /\ log' = << <<"clone", "all", pc>> >>
    /\ mainAtStart' = remote[MainBranch]
    /\ nodeAtIntegrate' = NoRef
    /\ UNCHANGED remote
    /\ UNCHANGED upvars
    /\ UNCHANGED apivars

NextRoundTrip ==
    \/ CreateNodeBranch
    \/ FetchUpdates
    \/ PorStatus
    \/ PorAsk
    \/ PorUpdate
    \/ Integrate
    \/ MergeMain
    \/ RebaseOnMain
    \/ PushNode
    \/ NextPeer
    \/ Return
    \/ FreshClone

SpecRoundTrip == Init /\ [][NextRoundTrip]_vars

-----------------------------------------------------------------------------
(* build_stack, lines 123-140: the packages are built one after the other *)

\* Number of packages of a build.
MaxPkgs == 3

\* easyconfig.branch of a package: the branch of the repository that holds
\* its easyconfig file, "none" for an easyconfig that is in no repository.
PkgBranches == {"none", NodeBranch, MainBranch}

\* The package lists of a build.
PkgLists == UNION {[1..n -> PkgBranches] : n \in 0..MaxPkgs}

\* An exception leaves build_stack.
BuildRaise(kind, what) ==
    /\ pc' = "failed"
    /\ err' = kind
    /\ log' = Append(log, <<"raise", what, kind>>)

\* clean_eb_tmp_files up to its yield (lines 41-42), at the head of the
\* with statement of line 128: the "eb-*" directories of /tmp are removed and
\* the build directory is emptied.
CleanBefore ==
    /\ pc = "build_next"
    /\ pkgs_to_build # << >>
    /\ eb_tmp' = FALSE
    /\ buildpath' = FALSE
    /\ pc' = "build_switch"
    /\ log' = Append(log, <<"clean", Head(pkgs_to_build), "before">>)
    /\ UNCHANGED <<pkgs_to_build, initial_branch, active, dirty, err>>
    /\ UNCHANGED <<local, track, remote, upstream, status>>
    /\ UNCHANGED lvars
    /\ UNCHANGED upvars
    /\ UNCHANGED apivars

\* switch_to_branch_if_repo(easyconfig.repo, easyconfig.branch) is entered
\* (git.py lines 243-252 and 567-576): no repository, nothing happens;
\* otherwise the active branch is recorded and the branch is checked out.
\* A refused checkout raises inside clean_eb_tmp_files, whose statements
\* after the yield are then not run.
SwitchForBuild ==
    /\ pc = "build_switch"
    /\ LET b == Head(pkgs_to_build)
       IN  IF b = "none"
           THEN /\ initial_branch' = "none"
                /\ pc' = "build_run"
                /\ UNCHANGED <<active, err, log>>
           ELSE \E ok \in (IF dirty /\ b # active THEN BOOLEAN ELSE {TRUE}) :
                  /\ initial_branch' = active
                  /\ active' = Switch(active, b, ok)
                  /\ IF ok
                     THEN pc' = "build_run" /\ UNCHANGED <<err, log>>
                     ELSE BuildRaise("GitRepoError", b)
    /\ UNCHANGED <<pkgs_to_build, eb_tmp, buildpath, dirty>>
    /\ UNCHANGED <<local, track, remote, upstream, status>>
    /\ UNCHANGED lvars
    /\ UNCHANGED upvars
    /\ UNCHANGED apivars

\* Variant: the statements after the yield run on an exception as well.
CleanAfter_always(built) == TRUE
\* clean_eb_tmp_files, lines 43-45: there is no try/finally around the yield,
\* the statements after it run only when the block has returned.
CleanAfter(built) == built

\* Lines 131-139 and the exit of the with statement: EasyBuild runs and
\* leaves its files in /tmp and in the build directory; run_subprocess
\* raises ValueError when the command fails.  On the way out
\* switch_to_branch switches back, then clean_eb_tmp_files goes on after its
\* yield if no exception passes through it.
RunBuild ==
    /\ pc = "build_run"
    /\ \E built \in BOOLEAN :
          /\ active' = IF initial_branch = "none" THEN active
                       ELSE SwitchToBranch(initial_branch, Head(pkgs_to_build), TRUE)
          /\ eb_tmp' = ~CleanAfter(built)
          /\ buildpath' = ~CleanAfter(built)
          /\ IF built
             THEN /\ pkgs_to_build' = Tail(pkgs_to_build)
                  /\ pc' = "build_next"
                  /\ err' = err
                  /\ log' = log \o << <<"build", Head(pkgs_to_build), "ok">> >>
                                \o (IF CleanAfter(built)
                                    THEN << <<"clean", Head(pkgs_to_build), "after">> >>
                                    ELSE << >>)
             ELSE /\ pkgs_to_build' = pkgs_to_build
                  /\ pc' = "failed"
                  /\ err' = "ValueError"
                  /\ log' = log \o << <<"build", Head(pkgs_to_build), "failed">> >>
                                \o (IF CleanAfter(built)
                                    THEN << <<"clean", Head(pkgs_to_build), "after">> >>
                                    ELSE << >>)
                                \o << <<"raise", Head(pkgs_to_build), "ValueError">> >>
    /\ initial_branch' = "none"
    /\ UNCHANGED dirty
    /\ UNCHANGED <<local, track, remote, upstream, status>>
    /\ UNCHANGED lvars
    /\ UNCHANGED upvars
    /\ UNCHANGED apivars

\* Line 143: the loop is over, build_stack returns.
BuildReturn ==
    /\ pc = "build_next"
    /\ pkgs_to_build = << >>
    /\ pc' = "done"
    /\ UNCHANGED <<local, track, remote, upstream, active, dirty, status, err, log>>
    /\ UNCHANGED bvars
    /\ UNCHANGED lvars
    /\ UNCHANGED upvars
    /\ UNCHANGED apivars

\* The state at line 123: both repositories were switched to the node
\* branch (lines 59-60); /tmp and the build directory may hold the files of
\* an earlier build.
InitBuild ==
    /\ pkgs_to_build \in PkgLists
    /\ eb_tmp \in BOOLEAN
    /\ buildpath \in BOOLEAN
    /\ initial_branch = "none"
    /\ local = [b \in BranchNames |-> IF b \in {MainBranch, NodeBranch} THEN Chain(1) ELSE NoRef]
    /\ track = local
    /\ remote = local
    /\ upstream = [b \in BranchNames |-> b \in {MainBranch, NodeBranch}]
    /\ active = NodeBranch
    /\ dirty \in BOOLEAN
    /\ pc = "build_next"
    /\ por = "idle"
    /\ cur = "none"
    /\ allow_reset = "none"
    /\ status = "none"
    /\ todo = {}
    /\ peer_policy = "none"
    /\ err = "none"
    /\ log = << >>
    /\ mainAtStart = local[MainBranch]
    /\ nodeAtIntegrate = NoRef
    /\ official = [b \in {} |-> NoRef]
    /\ ebTrack = [b \in {} |-> NoRef]
    /\ eb_remote = FALSE
    /\ mirror = << >>
    /\ delete_branch_upon_completion = FALSE
    /\ call = NoCall
    /\ result = <<"none", "none">>

NextBuild ==
    \/ CleanBefore
    \/ SwitchForBuild
    \/ RunBuild
    \/ BuildReturn

SpecBuild == InitBuild /\ [][NextBuild]_vars

----------------------------------------------------------------------------
(* Reading the log *)

Happened(ev) == \E i \in DOMAIN log : log[i] = ev
Asked(b) == \E i \in DOMAIN log : log[i][1] = "ask" /\ log[i][2] = b
Answered(b, a) == Happened(<<"ask", b, a>>)
\* The events a step appends to the log.
NewEvents == {log'[i] : i \in (Len(log) + 1)..Len(log')}
Past(places) == pc \in places

----------------------------------------------------------------------------
(* C1: in every run of update_local_repo, whatever the policies and the     *)
(* answers, main is reconciled with policy NO: its tip moves only by a      *)
(* fast-forward pull to its tracking branch, so every commit reachable from *)
(* main's tip before the run stays reachable; if main has diverged from its *)
(* upstream the run fails with main's tip unchanged.                        *)
C1_MainOnlyFastForwarded ==
    /\ mainAtStart \subseteq local[MainBranch]
    /\ local[MainBranch] # mainAtStart =>
          /\ local[MainBranch] = track[MainBranch]
          /\ Happened(<<"pull", MainBranch, "ff">>)
    /\ \A i \in DOMAIN log :
          log[i][2] = MainBranch /\ log[i][1] # "raise" => log[i] = <<"pull", MainBranch, "ff">>
    /\ (cur = MainBranch => allow_reset = "NO")
    /\ (/\ ~Past({"start", "fetch"})
        /\ Classify(mainAtStart, track[MainBranch]) = "DIVERGED")
       => /\ local[MainBranch] = mainAtStart
          /\ \/ pc = "main"
             \/ pc = "failed" /\ err = "GitRepoError"

C1_Witness ==
    /\ pc = "done"
    /\ local[MainBranch] # mainAtStart
    /\ Happened(<<"reset", NodeBranch, "upstream">>)

----------------------------------------------------------------------------
(* C2: pull_or_reset_to_upstream(branch, allow_reset=NO) on a branch that   *)
(* has DIVERGED from its tracking branch raises an error and leaves the     *)
(* branch tip and every other ref as they were before the call.            *)
C2_DenyDivergedRaises ==
    [][(/\ por \in {"called", "update"}
        /\ allow_reset = "NO"
        /\ ~Asked(cur)
        /\ BranchStatus(Repo, cur) = "DIVERGED")
       => /\ UNCHANGED refs
          /\ por = "update" => pc' = "failed" /\ err' = "GitRepoError"
          /\ por = "called" => por' = "update" /\ pc' = pc]_vars

C2_Witness ==
    /\ pc = "failed"
    /\ err = "GitRepoError"
    /\ ~Asked(NodeBranch)
    /\ log[Len(log)] = <<"raise", NodeBranch, "GitRepoError">>
    /\ BranchStatus(Repo, NodeBranch) = "DIVERGED"
    /\ ~Happened(<<"create", NodeBranch, "rooted">>)
    /\ nodeAtIntegrate = NoRef

----------------------------------------------------------------------------
(* C3: with policy INTERACTIVE on a DIVERGED branch, nothing is pulled or   *)
(* reset before user_confirmation_dialog has returned; the branch is reset  *)
(* to its tracking branch's commit only if the answer was YES, and with any *)
(* other answer its local-only commits are not discarded.                   *)
C3_AskBeforeReset ==
    [][/\ (por \in {"called", "asking"} => UNCHANGED refs)
       /\ (por = "update" /\ status = "DIVERGED") => allow_reset # "INTERACTIVE"
       /\ (por = "update" /\ status = "DIVERGED" /\ Asked(cur)) =>
             /\ log[Len(log)][1] = "ask"
             /\ local'[cur] # local[cur] =>
                   Answered(cur, "YES") /\ local'[cur] = track[cur]
             /\ ~Answered(cur, "YES") => local'[cur] = local[cur]]_vars

C3_Witness ==
    \E i \in DOMAIN log :
       /\ i < Len(log)
       /\ log[i] = <<"ask", NodeBranch, "YES">>
       /\ log[i + 1] = <<"reset", NodeBranch, "upstream">>
       /\ local[NodeBranch] = track[NodeBranch]

----------------------------------------------------------------------------
(* C4 as claimed: when a peer branch has DIVERGED, the policy is            *)
(* INTERACTIVE and the user answers "no", pull_or_reset_to_upstream leaves  *)
(* the branch untouched and raises no error, so update_local_repo           *)
(* completes.                                                               *)
C4_AskNoRaisesNothing ==
    \A b \in OtherNodeBranchNames :
       Answered(b, "NO") => ~Happened(<<"raise", b, "GitRepoError">>)

(* C4 as the code has it: after the answer "no" the branch is left          *)
(* untouched, but the pull that follows raises GitRepoError, which ends     *)
(* update_local_repo.                                                       *)
C4_AskNoLeavesBranchAndRaises ==
    [][(/\ por = "update"
        /\ cur \in OtherNodeBranchNames
        /\ status = "DIVERGED"
        /\ log[Len(log)] = <<"ask", cur, "NO">>)
       => /\ UNCHANGED refs
          /\ pc' = "failed"
          /\ err' = "GitRepoError"
          /\ log' = Append(log, <<"raise", cur, "GitRepoError">>)]_vars

C4_Witness ==
    /\ pc = "failed"
    /\ Len(log) > 1
    /\ log[Len(log)] = <<"raise", "p1", "GitRepoError">>
    /\ log[Len(log) - 1] = <<"ask", "p1", "NO">>
    /\ Classify(local["p1"], track["p1"]) = "DIVERGED"

----------------------------------------------------------------------------
(* C5: with policy YES on a DIVERGED branch, pull_or_reset_to_upstream ends *)
(* with the branch's tip equal to its tracking branch's commit (the status  *)
(* becomes UP_TO_DATE) without prompting, when the branch is not checked    *)
(* out and when it is checked out with a clean working tree.                *)
C5_AllowResetsToUpstream ==
    [][(/\ por \in {"called", "update"}
        /\ allow_reset = "YES"
        /\ ~Asked(cur)
        /\ BranchStatus(Repo, cur) = "DIVERGED"
        /\ ~(active = cur /\ dirty))
       => /\ por' # "asking"
          /\ ~\E ev \in NewEvents : ev[1] \in {"ask", "raise"}
          /\ por = "update" =>
                /\ local'[cur] = track[cur]
                /\ track' = track
                /\ Classify(local'[cur], track'[cur]) = "UP_TO_DATE"
                /\ pc' # "failed"]_vars

C5_Witness ==
    /\ pc = "done"
    /\ active = NodeBranch
    /\ ~dirty
    /\ ~Asked(NodeBranch) /\ ~Asked("p1")
    /\ Happened(<<"reset", NodeBranch, "upstream">>)
    /\ Happened(<<"reset", "p1", "upstream">>)
    /\ local["p1"] = track["p1"]

----------------------------------------------------------------------------
(* C6: in update_from_easybuild_upstream, for each mirrored branch, if the  *)
(* default remote's copy is AHEAD of or DIVERGED from the official remote's *)
(* copy, the function fails with an error and performs no merge, no push    *)
(* and no branch creation for that branch.                                  *)
C6_AheadOrDivergedFails ==
    [][(/\ pc = "up_loop"
        /\ mirror # << >>
        /\ Classify(track[Head(mirror)], ebTrack[Head(mirror)]) \in {"AHEAD", "DIVERGED"})
       => /\ pc' = "failed"
          /\ err' # "none"
          /\ UNCHANGED refs]_vars

----------------------------------------------------------------------------
(* C7: main's reconciliation with its upstream is complete before the       *)
(* relation of node to main is classified and before any rebase starts;     *)
(* when main was BEHIND its upstream and node DIVERGED from main, node is   *)
(* rebased, not reset, onto main's tip after the pull.                      *)
C7_MainResolvedBeforeIntegration ==
    /\ Past({"integrate", "merge", "rebase", "push_merged", "push_rebased"}) =>
          /\ por = "idle"
          /\ Happened(<<"fetch", "all", "prune">>)
          /\ BranchStatus(Repo, MainBranch) \in {"UP_TO_DATE", "AHEAD"}
          /\ Classify(mainAtStart, track[MainBranch]) = "BEHIND" =>
                /\ Happened(<<"pull", MainBranch, "ff">>)
                /\ local[MainBranch] = track[MainBranch]
    /\ (pc = "rebase" \/ pc = "push_rebased") =>
          Classify(nodeAtIntegrate, local[MainBranch]) = "DIVERGED"
    /\ pc = "push_rebased" =>
          /\ log[Len(log)] = <<"rebase", NodeBranch, MainBranch>>
          /\ local[MainBranch] \subseteq local[NodeBranch]
          /\ local[NodeBranch] = Rebased(nodeAtIntegrate, local[MainBranch])
          /\ ~Happened(<<"merge", NodeBranch, MainBranch>>)

C7_Witness ==
    /\ pc = "push_rebased"
    /\ Classify(mainAtStart, track[MainBranch]) = "BEHIND"
    /\ Classify(nodeAtIntegrate, mainAtStart) = "DIVERGED"
    /\ local[MainBranch] # mainAtStart

----------------------------------------------------------------------------
(* C8: the integration step is decided by branch_status(node, main) alone:  *)
(* BEHIND moves node's tip to main's tip without creating a commit,         *)
(* DIVERGED rebases node onto main so that main's tip is an ancestor of     *)
(* node's tip and node is AHEAD of main, UP_TO_DATE changes no ref.  (A     *)
(* merge or rebase that raises changes no ref.)                             *)
C8_IntegrationByStatus ==
    [][/\ pc = "integrate" =>
             LET st == Classify(local[NodeBranch], local[MainBranch])
             IN  /\ UNCHANGED refs
                 /\ pc' = IF st = "BEHIND" THEN "merge"
                          ELSE IF st = "DIVERGED" THEN "rebase" ELSE "peers"
       /\ pc = "merge" =>
             /\ UNCHANGED <<track, remote, upstream>>
             /\ \A b \in BranchNames \ {NodeBranch} : local'[b] = local[b]
             /\ \/ pc' = "push_merged" /\ local'[NodeBranch] = local[MainBranch]
                \/ pc' = "failed" /\ local' = local
       /\ pc = "rebase" =>
             /\ UNCHANGED <<track, remote, upstream>>
             /\ \A b \in BranchNames \ {NodeBranch} : local'[b] = local[b]
             /\ \/ /\ pc' = "push_rebased"
                   /\ local[MainBranch] \subseteq local'[NodeBranch]
                   /\ Classify(local'[NodeBranch], local'[MainBranch]) = "AHEAD"
                \/ pc' = "failed" /\ local' = local]_vars

C8_Witness ==
    /\ pc = "push_rebased"
    /\ local[MainBranch] \subseteq local[NodeBranch]
    /\ local[NodeBranch] # nodeAtIntegrate
    /\ Classify(local[NodeBranch], local[MainBranch]) = "AHEAD"

----------------------------------------------------------------------------
(* C9: the node branch is published (push_branch) after the integration     *)
(* exactly when the integration moved its tip; a forced push is permitted   *)
(* on the rebase path only: after the fast-forward and at the creation of   *)
(* the node branch push_branch is called with allow_force=False and no      *)
(* forced push is sent.                                                     *)
C9_PublishAfterIntegration ==
    [][/\ Past({"integrate", "merge", "rebase"}) =>
             (local'[NodeBranch] # local[NodeBranch]
                <=> pc' \in {"push_merged", "push_rebased"})
       /\ Past({"push_merged", "push_rebased"}) =>
             /\ Len(log') > Len(log)
             /\ log'[Len(log) + 1] =
                   <<"push_branch", NodeBranch,
                     IF pc = "push_rebased" THEN "force_allowed" ELSE "no_force">>
       /\ \A ev \in NewEvents :
             /\ ev[1] = "push_branch" =>
                   /\ ev[2] = NodeBranch
                   /\ Past({"start", "push_merged", "push_rebased"})
                   /\ ev[3] = "force_allowed" => pc = "push_rebased"
             /\ ev[1] = "send" =>
                   /\ \E e2 \in NewEvents : e2[1] = "push_branch"
                   /\ ev[3] = "force" => pc = "push_rebased"
       /\ (pc' \in {"peers", "peer", "done"} /\ ~Past({"peers", "peer", "done"})) =>
             (local'[NodeBranch] # nodeAtIntegrate'
                <=> \E ev \in NewEvents : ev[1] = "push_branch")]_vars

C9_Witness ==
    /\ pc = "done"
    /\ Happened(<<"rebase", NodeBranch, MainBranch>>)
    /\ Happened(<<"push_branch", NodeBranch, "force_allowed">>)
    /\ Happened(<<"send", NodeBranch, "force">>)
    /\ remote[NodeBranch] = local[NodeBranch]

----------------------------------------------------------------------------
(* C10 as claimed: with main at M3 and the node branch at M1 (2 behind, 0   *)
(* ahead) the integration fast-forwards node to M3 and the node branch is   *)
(* not pushed afterwards.                                                   *)
BehindByTwo ==
    /\ nodeAtIntegrate # NoRef
    /\ nodeAtIntegrate \subseteq local[MainBranch]
    /\ Cardinality(local[MainBranch] \ nodeAtIntegrate) = 2

C10_NoPushAfterFastForward ==
    [][(pc = "push_merged" /\ BehindByTwo) =>
          ~\E ev \in NewEvents : ev[1] = "send"]_vars

(* C10 as the code has it: the integration fast-forwards node to main's     *)
(* tip and push_branch(node, allow_force=False) is called next; node is     *)
(* then AHEAD of its upstream, so a push without force is sent.             *)
C10_FastForwardThenPlainPush ==
    [][/\ (pc = "merge" /\ pc' = "push_merged") =>
             local'[NodeBranch] = local[MainBranch]
       /\ (pc = "push_merged" /\ BehindByTwo) =>
             /\ local[NodeBranch] = local[MainBranch]
             /\ local' = local
             /\ log' = log \o << <<"push_branch", NodeBranch, "no_force">>,
                                 <<"send", NodeBranch, "plain">> >>
             /\ remote'[NodeBranch] = local[NodeBranch]
             /\ pc' = "peers"]_vars

C10_Witness ==
    /\ pc = "done"
    /\ nodeAtIntegrate = Chain(1)
    /\ local[MainBranch] = Chain(3)
    /\ local[NodeBranch] = Chain(3)
    /\ remote[NodeBranch] = Chain(3)
    /\ Happened(<<"send", NodeBranch, "plain">>)

----------------------------------------------------------------------------
(* C11: when the git rebase of rebase_branch or the git merge of            *)
(* merge_branch fails, the operation is aborted and a GitRepoError is       *)
(* raised; the node branch's tip and the active branch are as before the    *)
(* call, and update_local_repo sends no push.                               *)
C11_FailedIntegrationAborted ==
    [][((pc = "merge" \/ (pc = "rebase" /\ ~dirty)) /\ pc' = "failed")
       => /\ err' = "GitRepoError"
          /\ local' = local
          /\ active' = active
          /\ \A ev \in NewEvents : ev[1] # "send"]_vars

----------------------------------------------------------------------------
\* The history the last branch_status call compared its branch with.
ComparedWith ==
    IF call.branch_to_compare_with = "" THEN track[call.branch_name]
    ELSE local[call.branch_to_compare_with]

\* The last call was branch_status and it returned a relation.
StatusReturned == call.op = "branch_status" /\ result[1] # "GitRepoError"

(* C12: branch_status returns UP_TO_DATE iff both counts are 0, AHEAD iff   *)
(* ahead > 0 and behind = 0, BEHIND iff ahead = 0 and behind > 0, DIVERGED  *)
(* iff both are > 0; NO_UPSTREAM is returned only when no comparison branch *)
(* was given and the branch has no tracking branch.                         *)
C12_StatusFromCounts ==
    StatusReturned =>
        LET ahead == Ahead(local[call.branch_name], ComparedWith)
            behind == Behind(local[call.branch_name], ComparedWith)
        IN  IF call.branch_to_compare_with = "" /\ ~upstream[call.branch_name]
            THEN result[1] = "NO_UPSTREAM"
            ELSE /\ result[1] \in {"UP_TO_DATE", "AHEAD", "BEHIND", "DIVERGED"}
                 /\ result[1] = "UP_TO_DATE" <=> (ahead = 0 /\ behind = 0)
                 /\ result[1] = "AHEAD" <=> (ahead > 0 /\ behind = 0)
                 /\ result[1] = "BEHIND" <=> (ahead = 0 /\ behind > 0)
                 /\ result[1] = "DIVERGED" <=> (ahead > 0 /\ behind > 0)

\* A call with an explicit comparison branch that found two commits ahead
\* and none behind.
C12_Witness ==
    /\ StatusReturned
    /\ call.branch_to_compare_with # ""
    /\ Ahead(local[call.branch_name], ComparedWith) = 2
    /\ Behind(local[call.branch_name], ComparedWith) = 0
    /\ result[1] = "AHEAD"

----------------------------------------------------------------------------
\* The local branches that exist.
Existing == {b \in BranchNames : local[b] # NoRef}

(* C13: for all existing branches A and B in one repository state,          *)
(* branch_status(A, B) is AHEAD iff branch_status(B, A) is BEHIND, DIVERGED *)
(* iff branch_status(B, A) is DIVERGED, and UP_TO_DATE iff                  *)
(* branch_status(B, A) is UP_TO_DATE.                                       *)
C13_StatusSymmetricUnderSwap ==
    \A a \in Existing, b \in Existing :
        /\ BranchStatusCall(Repo, a, b) = "AHEAD"
              <=> BranchStatusCall(Repo, b, a) = "BEHIND"
        /\ BranchStatusCall(Repo, a, b) = "DIVERGED"
              <=> BranchStatusCall(Repo, b, a) = "DIVERGED"
        /\ BranchStatusCall(Repo, a, b) = "UP_TO_DATE"
              <=> BranchStatusCall(Repo, b, a) = "UP_TO_DATE"

\* The client asked for node against main and got DIVERGED, in a state
\* where main against node is DIVERGED as well.
C13_Witness ==
    /\ call.op = "branch_status"
    /\ call.branch_name = NodeBranch
    /\ call.branch_to_compare_with = MainBranch
    /\ result[1] = "DIVERGED"
    /\ BranchStatusCall(Repo, MainBranch, NodeBranch) = "DIVERGED"

----------------------------------------------------------------------------
\* A step in which the client calls push_branch.
PushStep == ApiIdle /\ call'.op = "push_branch"

(* C14: push_branch on a branch that is DIVERGED from its upstream: with    *)
(* allow_force=False it raises without sending any push and leaves the      *)
(* remote branch unchanged; with allow_force=True it sends a forced push    *)
(* and raises unless the remote reports a forced-update result.             *)
C14_PushDiverged ==
    [][(PushStep /\ BranchStatus(Repo, call'.branch_name) = "DIVERGED")
       => IF call'.allow_force
          THEN /\ result'[2] = "force"
               /\ result'[1] = "ok"
                    <=> PushFlag(Repo, call'.branch_name, TRUE) = "FORCED_UPDATE"
               /\ result'[1] \in {"ok", "GitRepoError"}
          ELSE /\ result'[1] = "GitRepoError"
               /\ result'[2] = "none"
               /\ remote' = remote]_vars

\* A forced push of a diverged branch went through: the remote branch, which
\* had commits the local branch lacks, is now the local branch.
C14_Witness ==
    /\ call.op = "push_branch"
    /\ call.allow_force
    /\ result = <<"ok", "force">>
    /\ remote[call.branch_name] = local[call.branch_name]
    /\ LN \in local[call.branch_name]

----------------------------------------------------------------------------
(* C15: push_branch on a branch that is UP_TO_DATE with or BEHIND its       *)
(* upstream sends no push, raises no error, and leaves every local and      *)
(* remote ref unchanged, whatever the value of allow_force.                 *)
C15_PushNothingToSend ==
    [][(PushStep /\ BranchStatus(Repo, call'.branch_name) \in {"UP_TO_DATE", "BEHIND"})
       => /\ result' = <<"ok", "none">>
          /\ UNCHANGED refs]_vars

\* push_branch with force allowed returned from a branch that is behind its
\* upstream, and the remote still has the commits the branch lacks.
C15_Witness ==
    /\ call.op = "push_branch"
    /\ call.allow_force
    /\ result = <<"ok", "none">>
    /\ BranchStatus(Repo, call.branch_name) = "BEHIND"
    /\ remote[call.branch_name] \ local[call.branch_name] # {}

----------------------------------------------------------------------------
\* The refs after the step, as one value.
RepoNext ==
    [local |-> local', track |-> track', remote |-> remote', upstream |-> upstream']

(* C16: push_branch on an AHEAD branch sends a non-forced push and raises   *)
(* unless the remote reports a clean fast-forward; on a NO_UPSTREAM branch  *)
(* it pushes with upstream tracking set and raises unless the remote        *)
(* reports a new branch; when it returns without error in these cases the   *)
(* branch has a tracking branch and its status is UP_TO_DATE.               *)
C16_PushAheadOrNew ==
    [][(PushStep /\ BranchStatus(Repo, call'.branch_name) \in {"AHEAD", "NO_UPSTREAM"})
       => LET b == call'.branch_name
              st == BranchStatus(Repo, b)
          IN  /\ result'[2] = IF st = "AHEAD" THEN "plain" ELSE "set_upstream"
              /\ result'[1] \in {"ok", "GitRepoError"}
              /\ result'[1] = "ok"
                   <=> PushFlag(Repo, b, FALSE) =
                          (IF st = "AHEAD" THEN "FAST_FORWARD" ELSE "NEW_HEAD")
              /\ result'[1] = "ok"
                   => /\ upstream'[b]
                      /\ BranchStatus(RepoNext, b) = "UP_TO_DATE"]_vars

\* The first push of a branch without upstream went through: the branch is
\* on the remote and tracks it.
C16_Witness ==
    /\ call.op = "push_branch"
    /\ result = <<"ok", "set_upstream">>
    /\ upstream[call.branch_name]
    /\ remote[call.branch_name] = local[call.branch_name]
    /\ BranchStatus(Repo, call.branch_name) = "UP_TO_DATE"

----------------------------------------------------------------------------
\* A client's call of pull_or_reset_to_upstream reads the branch's status.
PorEntered == pc = "api" /\ por = "called"

\* A client's call of pull_or_reset_to_upstream returns.
PorReturns == pc = "api" /\ por # "idle" /\ por' = "idle" /\ pc' = "api"

(* C17: pull_or_reset_to_upstream on a branch that is UP_TO_DATE with or    *)
(* AHEAD of its upstream changes no ref, prompts nobody and raises nothing, *)
(* for every policy; a second call in succession changes nothing, and a     *)
(* call that succeeded on a BEHIND or DIVERGED branch leaves a state in     *)
(* which a second call is a no-op.                                          *)
C17_ReconcileIdempotent ==
    [][/\ (PorEntered /\ (BranchStatus(Repo, cur) \in {"UP_TO_DATE", "AHEAD"}
                          \/ call.nth = 2))
          => /\ UNCHANGED <<local, track, remote, upstream, active, dirty, log, err>>
             /\ PorReturns
       /\ PorReturns
          => BranchStatus(RepoNext, cur) \in {"UP_TO_DATE", "AHEAD"}]_vars

\* The second of two calls in succession has returned, the first having
\* reset a diverged branch.
C17_Witness ==
    /\ ApiIdle
    /\ call.op = "pull_or_reset_to_upstream"
    /\ call.nth = 2
    /\ Happened(<<"reset", call.branch_name, "upstream">>)
    /\ log[Len(log)] = <<"reset", call.branch_name, "upstream">>

----------------------------------------------------------------------------
\* A step in which the client calls pull_branch.
PullStep == ApiIdle /\ call'.op = "pull_branch"

(* C18: reconciling a branch whose relation to its upstream is NO_UPSTREAM  *)
(* fails only if the caller requires an upstream to exist; otherwise it is  *)
(* a no-op that raises nothing and changes no ref, in                       *)
(* pull_or_reset_to_upstream as well as in pull_branch with                 *)
(* error_on_missing_upstream=False.                                         *)
C18_NoUpstreamIsNoOp ==
    [][/\ (por = "called" /\ BranchStatus(Repo, cur) = "NO_UPSTREAM")
          => /\ pc' # "failed"
             /\ err' = "none"
             /\ UNCHANGED refs
       /\ (PullStep /\ BranchStatus(Repo, call'.branch_name) = "NO_UPSTREAM")
          => /\ UNCHANGED refs
             /\ result'[1] = IF call'.error_on_missing_upstream
                             THEN "GitRepoError" ELSE "ok"]_vars

----------------------------------------------------------------------------
(* C19: pull_or_reset_to_upstream on a branch that is BEHIND its upstream   *)
(* performs a fast-forward-only update whatever the policy and without      *)
(* prompting: on success the tip is the tracking branch's commit and no     *)
(* commit was created, whether or not the branch is checked out; if the     *)
(* update is not a clean fast-forward an error is raised.                   *)
C19_BehindFastForwards ==
    [][/\ (PorEntered /\ BranchStatus(Repo, cur) = "BEHIND")
          => /\ por' = "update"
             /\ UNCHANGED <<local, track, remote, upstream, log>>
       /\ (pc = "api" /\ por = "update" /\ status = "BEHIND")
          => IF pc' = "failed"
             THEN /\ err' # "none"
                  /\ UNCHANGED refs
             ELSE /\ PorReturns
                  /\ local'[cur] = track'[cur]
                  /\ local[cur] \subseteq local'[cur]
                  /\ local'[cur] \subseteq remote[cur]
                  /\ NewEvents = {<<"pull", cur, "ff">>}]_vars

\* A pull under the policy YES has fast-forwarded a branch that is not
\* checked out.
C19_Witness ==
    /\ ApiIdle
    /\ call.op = "pull_or_reset_to_upstream"
    /\ call.allow_reset = "YES"
    /\ active # call.branch_name
    /\ log # << >>
    /\ log[Len(log)] = <<"pull", call.branch_name, "ff">>
    /\ local[call.branch_name] = track[call.branch_name]

----------------------------------------------------------------------------
\* Something was done to, asked about or raised for a peer branch.
PeerTouched ==
    \/ cur \in OtherNodeBranchNames
    \/ \E i \in DOMAIN log : log[i][2] \in OtherNodeBranchNames

\* The node branch was classified against main and, if that called for a
\* merge or a rebase, the step was made and push_branch was called after it.
NodePublished ==
    /\ nodeAtIntegrate # NoRef
    /\ Classify(nodeAtIntegrate, local[MainBranch]) = "BEHIND"
          => /\ Happened(<<"merge", NodeBranch, MainBranch>>)
             /\ Happened(<<"push_branch", NodeBranch, "no_force">>)
    /\ Classify(nodeAtIntegrate, local[MainBranch]) = "DIVERGED"
          => /\ Happened(<<"rebase", NodeBranch, MainBranch>>)
             /\ Happened(<<"push_branch", NodeBranch, "force_allowed">>)
    /\ ~\E i \in DOMAIN log : log[i][1] = "raise" /\ log[i][2] = NodeBranch

(* C20: in update_local_repo the peer branches are reconciled only after    *)
(* the node branch's integration and publication have finished, and only    *)
(* the peer branches that exist locally are touched, none being created; a  *)
(* failure on a diverged peer branch therefore never prevents the node      *)
(* branch's push.                                                           *)
C20_PeersReconciledLast ==
    /\ [](/\ PeerTouched => NodePublished
          /\ cur \in OtherNodeBranchNames => (pc = "peer" /\ local[cur] # NoRef)
          /\ \A i \in DOMAIN log, j \in DOMAIN log :
                (i < j /\ log[i][2] \in OtherNodeBranchNames)
                   => log[j][2] \in OtherNodeBranchNames)
    /\ [][\A b \in OtherNodeBranchNames : local[b] = NoRef => local'[b] = NoRef]_vars

\* The run failed on a diverged peer branch after the rebased node branch
\* had been force-pushed.
C20_Witness ==
    /\ pc = "failed"
    /\ log[Len(log)] = <<"raise", "p1", "GitRepoError">>
    /\ Happened(<<"send", NodeBranch, "force">>)
    /\ remote[NodeBranch] = local[NodeBranch]

----------------------------------------------------------------------------
(* C21: update_local_repo never rebases a peer-node branch, never merges    *)
(* into it and never pushes it: each step leaves a peer branch's tip        *)
(* unchanged or on its tracking branch's commit, and the remote copies of   *)
(* the peer branches are unchanged.                                         *)
C21_PeersOnlyPulledOrReset ==
    [][\A b \in OtherNodeBranchNames :
          /\ remote'[b] = remote[b]
          /\ local'[b] = local[b] \/ local'[b] = track'[b]
          /\ \A ev \in NewEvents :
                ev[2] = b => ev[1] \in {"ask", "pull", "reset", "raise"}]_vars

\* The run is over and left a peer branch that had diverged on its
\* tracking branch's commit, which is what the remote has.
C21_Witness ==
    /\ pc = "done"
    /\ Happened(<<"reset", "p1", "upstream">>)
    /\ local["p1"] = track["p1"]
    /\ remote["p1"] = track["p1"]
    /\ RP("p1") \in local["p1"]

----------------------------------------------------------------------------
\* The step of update_local_repo that creates the missing node branch.
CreationStep == pc = "start" /\ local[NodeBranch] = NoRef /\ pc' # "start"

(* C22: a node branch that does not exist locally when update_local_repo    *)
(* starts is created: when a same-named branch exists on the remote the new *)
(* branch points at that branch's commit, tracks it, and nothing is pushed; *)
(* otherwise it is rooted at main's commit and pushed at once with upstream *)
(* set.  When the step ends without error the node branch exists locally    *)
(* and has a tracking branch on the default remote.                         *)
C22_MissingNodeBranchCreated ==
    [][CreationStep
       => /\ IF remote[NodeBranch] # NoRef
             THEN /\ local'[NodeBranch] = remote[NodeBranch]
                  /\ upstream'[NodeBranch]
                  /\ \A ev \in NewEvents : ev[1] # "send"
             ELSE /\ local'[NodeBranch] = local[MainBranch]
                  /\ <<"send", NodeBranch, "set_upstream">> \in NewEvents
          /\ pc' # "failed"
                => /\ local'[NodeBranch] # NoRef
                   /\ upstream'[NodeBranch]
                   /\ remote'[NodeBranch] # NoRef]_vars

----------------------------------------------------------------------------
\* The two fetches a run can issue: fetch_updates (line 104) and the fetch
\* new_branch makes on its own.
PruningFetch == <<"fetch", "all", "prune">>
CreationFetch == <<"fetch", "all", "no_prune">>

\* The positions of the log that precede fetch_updates.
BeforeFetch == {i \in DOMAIN log : \A j \in 1..i : log[j] # PruningFetch}

(* C23 as stated: a run starts with the fetch of all remotes and performs   *)
(* exactly one such fetch; everything else, the creation and first push of  *)
(* a missing node branch included, happens after it.                        *)
C23_OneFetchFirst ==
    /\ log # << >> => log[1] = PruningFetch
    /\ \A i \in DOMAIN log : log[i][1] = "fetch" => i = 1

(* C23 amended: fetch_updates is issued once, and every classification and  *)
(* every pull, reset, merge, rebase and push of the reconciliation happens  *)
(* after it; only the creation of a missing node branch comes before it,    *)
(* with the non-pruning fetch new_branch makes and the first push.          *)
C23_OneFetchAfterCreation ==
    /\ \A i \in DOMAIN log, j \in DOMAIN log :
          (log[i] = PruningFetch /\ log[j] = PruningFetch) => i = j
    /\ \A i \in BeforeFetch :
          \/ log[i] \in {<<"create", NodeBranch, "tracked">>,
                         <<"create", NodeBranch, "rooted">>,
                         CreationFetch,
                         <<"push_branch", NodeBranch, "no_force">>,
                         <<"send", NodeBranch, "set_upstream">>}
          \/ log[i][1] = "raise" /\ log[i][2] = NodeBranch
    /\ (BeforeFetch # {} \/ Happened(CreationFetch))
          => log[1][1] = "create"
    /\ pc \in {"main", "node", "integrate", "merge", "rebase", "push_merged",
               "push_rebased", "peers", "peer", "done"}
          => Happened(PruningFetch)

\* A finished run that created the node branch at main's commit, pushed it,
\* and only then fetched and fast-forwarded main.
C23_Witness ==
    /\ pc = "done"
    /\ Len(log) >= 5
    /\ log[1] = <<"create", NodeBranch, "rooted">>
    /\ log[2] = CreationFetch
    /\ log[4] = <<"send", NodeBranch, "set_upstream">>
    /\ log[5] = PruningFetch
    /\ Happened(<<"pull", MainBranch, "ff">>)

----------------------------------------------------------------------------
(* C24: every error raised by a step of update_local_repo is terminal: no   *)
(* later step of the run executes, none is retried, and the ref changes of  *)
(* the steps that had succeeded are kept.                                   *)
C24_ErrorsAreTerminal ==
    /\ [](err # "none" <=> pc = "failed")
    /\ [][/\ pc # "failed"
          /\ pc' = "failed"
                => /\ UNCHANGED refs
                   /\ log'[Len(log')][1] = "raise"]_vars

\* The rebase of the node branch failed after main had been fast-forwarded:
\* main is where the pull put it.
C24_Witness ==
    /\ pc = "failed"
    /\ log[Len(log)] = <<"raise", NodeBranch, "GitRepoError">>
    /\ Happened(<<"pull", MainBranch, "ff">>)
    /\ ~Happened(<<"rebase", NodeBranch, MainBranch>>)
    /\ LN \in local[NodeBranch]
    /\ local[MainBranch] = remote[MainBranch]
    /\ local[MainBranch] # mainAtStart

----------------------------------------------------------------------------
\* A step in which the client calls reset_branch.
ResetStep == ApiIdle /\ call'.op = "reset_branch"

(* C25: reset_branch on the checked-out branch raises when the repository   *)
(* has uncommitted changes and leaves the tip, the index and the working    *)
(* tree as they are; on a clean tree it moves the tip to the reference and  *)
(* index and working tree match it.                                         *)
C25_ResetCheckedOutBranch ==
    [][(ResetStep /\ active = call'.branch_name)
       => IF dirty
          THEN /\ result'[1] = "GitRepoError"
               /\ UNCHANGED <<local, track, remote, upstream, active, dirty>>
          ELSE /\ result'[1] = "ok"
               /\ local'[call'.branch_name] = RefHistory(Repo, call'.ref_to_reset_to)
               /\ \A b \in BranchNames \ {call'.branch_name} : local'[b] = local[b]
               /\ ~dirty'
               /\ UNCHANGED <<track, remote, upstream, active>>]_vars

\* The checked-out node branch, which had a commit of its own, was reset to
\* main on a clean tree.
C25_Witness ==
    /\ call.op = "reset_branch"
    /\ call.ref_to_reset_to = MainBranch
    /\ result[1] = "ok"
    /\ active = call.branch_name
    /\ ~dirty
    /\ local[call.branch_name] = local[MainBranch]
    /\ mainAtStart = local[MainBranch]

-----------------------------------------------------------------------------
(* C26: in update_from_easybuild_upstream, when the default remote's copy   *)
(* of a mirrored branch is BEHIND the official copy, the official branch is *)
(* merged into a local branch and pushed without force; after a successful  *)
(* run the default remote's copy equals the official copy, so that the next *)
(* run classifies the branch as UP_TO_DATE.                                  *)
Mirrored(b) == Happened(<<"merge", b, "eb-source">>)

C26_MirrorCatchesUp ==
    pc = "done"
    => \A b \in MirrorNames :
          Mirrored(b)
          => /\ Happened(<<"push_branch", b, "no_force">>)
             /\ remote[b] = official[b]
             /\ Classify(remote[b], official[b]) = "UP_TO_DATE"

-----------------------------------------------------------------------------
(* C30: update_from_easybuild_upstream never leaves a scratch branch behind *)
(* and never deletes a pre-existing one: a local branch it created because  *)
(* the mirrored branch did not exist locally is deleted when the merge and  *)
(* push step ends, on success and on failure alike, so that the set of      *)
(* local branches after the call equals the set before the call.            *)
Scratch(b) == Happened(<<"create", b, "tracked">>)

C30_NoScratchBranchLeft ==
    /\ [](pc \in {"done", "failed"}
           => \A b \in MirrorNames : Scratch(b) => local[b] = NoRef)
    /\ [][\A b \in MirrorNames :
             (local[b] # NoRef /\ local'[b] = NoRef) => Scratch(b)]_vars

-----------------------------------------------------------------------------
\* Another node has pushed to the remote copy of b since the last fetch: the
\* remote branch has commits that the remote-tracking ref lacks.
AdvancedSinceFetch(b) ==
    /\ upstream[b]
    /\ track[b] # NoRef
    /\ track[b] \subseteq remote[b]
    /\ track[b] # remote[b]

-----------------------------------------------------------------------------
(* C29: the forced push that update_local_repo sends after rebasing the     *)
(* node branch never removes from the remote node branch a commit that was  *)
(* pushed there by another process after this run's fetch, that is, a       *)
(* commit not reachable from the remote-tracking ref the run's decisions    *)
(* were based on.                                                           *)
C29_ForcedPushKeepsUnseenCommits ==
    [][pc = "push_rebased"
       => (remote[NodeBranch] \ track[NodeBranch]) \subseteq remote'[NodeBranch]]_vars

-----------------------------------------------------------------------------
\* The run in the fresh clone has ended: it created the node branch from the
\* remote one, its tip is the tip on the remote, and the run sent no push.
SameTipNothingPushed ==
    /\ pc = "done"
    /\ Happened(<<"create", NodeBranch, "tracked">>)
    /\ local[NodeBranch] = remote[NodeBranch]
    /\ ~\E i \in DOMAIN log : log[i][1] = "send"

-----------------------------------------------------------------------------
(* C31: the switch_to_branch context manager, with revert_on_exit=True,     *)
(* restores the branch that was active on entry when the block exits,       *)
(* on normal exit and when the block raises; hence after rebase_branch or   *)
(* merge_branch returns or fails, the active branch is the same as before   *)
(* the call.                                                                *)
C31_ActiveBranchRestored ==
    [][(pc \in {"merge", "rebase"}) => active' = active]_vars

\* A rebase of the node branch was made, and one failed, while another
\* branch was checked out.
C31_Witness ==
    /\ active # NodeBranch
    /\ pc \in {"push_rebased", "failed"}
    /\ \/ Happened(<<"rebase", NodeBranch, MainBranch>>)
       \/ /\ Happened(<<"raise", NodeBranch, "GitRepoError">>)
          /\ nodeAtIntegrate # NoRef
          /\ Classify(nodeAtIntegrate, local[MainBranch]) = "DIVERGED"

-----------------------------------------------------------------------------
(* C32: reset_branch on a branch that is not the active branch moves only   *)
(* that branch's ref: HEAD, the index, the working tree and all other refs  *)
(* are unchanged, and the call succeeds even when the working tree is       *)
(* dirty.                                                                   *)
C32_ResetOtherBranchMovesRefOnly ==
    [][(ResetStep /\ active # call'.branch_name)
       => /\ result'[1] = "ok"
          /\ local'[call'.branch_name] = RefHistory(Repo, call'.ref_to_reset_to)
          /\ \A b \in BranchNames \ {call'.branch_name} : local'[b] = local[b]
          /\ UNCHANGED <<track, remote, upstream, active, dirty>>]_vars

\* The node branch was reset to the remote-tracking ref while main was
\* checked out with uncommitted changes.
C32_Witness ==
    /\ call.op = "reset_branch"
    /\ call.ref_to_reset_to = "origin/node"
    /\ result[1] = "ok"
    /\ active # call.branch_name
    /\ dirty
    /\ local[call.branch_name] = track[call.branch_name]
    /\ local[call.branch_name] # local[MainBranch]

-----------------------------------------------------------------------------
(* C33: whenever update_local_repo returns without error, main's tip is an  *)
(* ancestor of or equal to the node branch's tip, main is UP_TO_DATE with   *)
(* or AHEAD of its upstream, and the node branch is UP_TO_DATE with or      *)
(* AHEAD of its upstream, UP_TO_DATE whenever integration moved its tip.    *)
C33_StateOnReturn ==
    pc = "done"
    => /\ BranchStatusWith(Repo, NodeBranch, MainBranch) \in {"UP_TO_DATE", "AHEAD"}
       /\ local[MainBranch] \subseteq local[NodeBranch]
       /\ BranchStatus(Repo, MainBranch) \in {"UP_TO_DATE", "AHEAD"}
       /\ BranchStatus(Repo, NodeBranch) \in {"UP_TO_DATE", "AHEAD"}
       /\ local[NodeBranch] # nodeAtIntegrate
             => BranchStatus(Repo, NodeBranch) = "UP_TO_DATE"

\* A run returned after it had rebased the node branch and published it; main
\* is ahead of its upstream.
C33_Witness ==
    /\ pc = "done"
    /\ Happened(<<"rebase", NodeBranch, MainBranch>>)
    /\ local[NodeBranch] # nodeAtIntegrate
    /\ remote[NodeBranch] = local[NodeBranch]
    /\ BranchStatus(Repo, MainBranch) = "AHEAD"

-----------------------------------------------------------------------------
(* C34: on the fast-forward path of update_local_repo (node BEHIND main     *)
(* after both were reconciled with their upstreams), the node branch after  *)
(* the fast-forward is never DIVERGED from its own upstream, so that the    *)
(* non-forced push_branch that follows never fails with the                 *)
(* diverged-history error, the remote not having changed after the fetch.   *)
C34_FastForwardNeverDiverged ==
    [][(pc = "push_merged")
       => /\ BranchStatus(Repo, NodeBranch) \in {"UP_TO_DATE", "AHEAD"}
          /\ err' = "none"
          /\ remote'[NodeBranch] = local[NodeBranch]]_vars

\* The node branch was fast-forwarded to main, which had been pulled, and
\* pushed.
C34_Witness ==
    /\ Happened(<<"merge", NodeBranch, MainBranch>>)
    /\ Happened(<<"send", NodeBranch, "plain">>)
    /\ Happened(<<"pull", MainBranch, "ff">>)
    /\ local[NodeBranch] # nodeAtIntegrate
    /\ err = "none"
    /\ remote[NodeBranch] = local[MainBranch]

-----------------------------------------------------------------------------
(* C35: on the rebase path of update_local_repo (node DIVERGED from main),  *)
(* if the repository has uncommitted changes the run fails before any       *)
(* rebase is started: the node branch's tip and the remote are unchanged by *)
(* the integration step and the uncommitted changes are not overwritten;    *)
(* the fast-forward path has no such check.                                 *)
C35_DirtyRepoIsNotRebased ==
    /\ [][(pc = "rebase" /\ dirty)
          => /\ pc' = "failed"
             /\ err' = "ValueError"
             /\ NewEvents = {<<"raise", NodeBranch, "ValueError">>}
             /\ UNCHANGED <<local, track, remote, upstream, active, dirty>>]_vars
    /\ [][(pc = "merge" /\ dirty)
          => /\ err' # "ValueError"
             /\ dirty'
             /\ \/ local'[NodeBranch] = local[MainBranch]
                \/ err' # "none" /\ UNCHANGED refs]_vars

\* A run with uncommitted changes stopped at the rebase: the node branch is
\* still DIVERGED from main and nothing was pushed.
C35_Witness ==
    /\ pc = "failed"
    /\ err = "ValueError"
    /\ dirty
    /\ local[NodeBranch] = nodeAtIntegrate
    /\ Classify(local[NodeBranch], local[MainBranch]) = "DIVERGED"
    /\ ~Happened(<<"rebase", NodeBranch, MainBranch>>)

-----------------------------------------------------------------------------
(* C36: merge_branch on a branch that is BEHIND the branch to merge takes   *)
(* the reset fast path; if that reset is refused because the branch is      *)
(* active and the working tree is dirty, it falls back to an ordinary git   *)
(* merge instead of failing.  In neither path are uncommitted changes       *)
(* discarded, and on success the branch tip equals the merged branch's tip, *)
(* no merge commit being created.                                           *)
ResetRefused == active = NodeBranch /\ dirty

C36_MergeOfBehindBranch ==
    [][(pc = "merge")
       => /\ Classify(local[NodeBranch], local[MainBranch]) = "BEHIND"
          /\ ~ResetRefused => err' = "none"
          /\ ResetRefused => err' \in {"none", "GitCommandError"}
          /\ err' = "none" => /\ local'[NodeBranch] = local[MainBranch]
                              /\ pc' = "push_merged"
          /\ err' # "none" => UNCHANGED refs
          /\ \A b \in BranchNames \ {NodeBranch} : local'[b] = local[b]
          /\ UNCHANGED <<dirty, active, track, remote>>]_vars

\* The node branch, checked out with uncommitted changes, was merged by
\* "git merge": it is at main's tip and the changes are still there.
C36_Witness ==
    /\ pc = "push_merged"
    /\ active = NodeBranch
    /\ dirty
    /\ local[NodeBranch] = local[MainBranch]
    /\ local[NodeBranch] # nodeAtIntegrate

-----------------------------------------------------------------------------
(* C37: user_confirmation_dialog is invoked by pull_or_reset_to_upstream    *)
(* only when the branch is DIVERGED and the policy is INTERACTIVE, and at   *)
(* most once per call; for UP_TO_DATE, AHEAD and BEHIND branches, and for   *)
(* the policies YES and NO, the user is never prompted.                     *)
Prompted(b) == {i \in DOMAIN log : log[i][1] = "ask" /\ log[i][2] = b}

C37_PromptOnlyWhenDivergedInteractive ==
    /\ [](\A b \in BranchNames : Cardinality(Prompted(b)) <= 1)
    /\ [][\A ev \in NewEvents :
             ev[1] = "ask"
             => /\ ev[2] = cur
                /\ BranchStatus(Repo, cur) = "DIVERGED"
                /\ allow_reset = "INTERACTIVE"
                /\ Cardinality(Prompted(cur)) = 0]_vars

\* The user was asked about the node branch, which had diverged, and about
\* no other branch.
C37_Witness ==
    /\ pc = "done"
    /\ Cardinality(Prompted(NodeBranch)) = 1
    /\ Happened(<<"pull", MainBranch, "ff">>)
    /\ \A b \in BranchNames \ {NodeBranch} : Prompted(b) = {}

-----------------------------------------------------------------------------
\* The steps update_local_repo has left at each place, in the order of the
\* function body, and those pull_or_reset_to_upstream has left.
PcLeft(p) ==
    CASE p = "start" -> 9
      [] p = "fetch" -> 8
      [] p = "main" -> 7
      [] p = "node" -> 6
      [] p = "integrate" -> 5
      [] p \in {"merge", "rebase"} -> 4
      [] p \in {"push_merged", "push_rebased"} -> 3
      [] p \in {"peers", "peer"} -> 2
      [] OTHER -> 0

PorLeft(p) ==
    CASE p = "called" -> 3
      [] p = "asking" -> 2
      [] p = "update" -> 1
      [] OTHER -> 0

StepsLeft(p, branches, q) == PcLeft(p) * 100 + Cardinality(branches) * 10 + PorLeft(q)

Terminated == pc \in {"done", "failed"}

(* C38: every run of update_local_repo terminates, successfully or in an    *)
(* error, provided each underlying git command and the confirmation prompt  *)
(* return: each step (create, fetch, reconcile main, reconcile node,        *)
(* integrate, publish, reconcile each peer once) runs at most once and      *)
(* there is no retry loop.                                                  *)
C38_RunTerminates ==
    /\ <>Terminated
    /\ [][StepsLeft(pc', todo', por') < StepsLeft(pc, todo, por)]_vars
    /\ [](Cardinality({i \in DOMAIN log : log[i] = <<"fetch", "all", "prune">>}) <= 1)
    /\ [](\A b \in BranchNames :
            Cardinality({i \in DOMAIN log :
                           log[i][2] = b /\ log[i][1] \in {"pull", "reset"}}) <= 1)

\* A run has returned after it visited both peer branches.
C38_Witness ==
    /\ pc = "done"
    /\ Happened(<<"reset", "p1", "upstream">>)
    /\ local["p2"] # NoRef
    /\ Happened(<<"rebase", NodeBranch, MainBranch>>)

-----------------------------------------------------------------------------
\* The build command of a package has failed.
BuildFailed == \E i \in DOMAIN log : log[i][1] = "build" /\ log[i][3] = "failed"

(* C39: in build_stack, for each package the clean_eb_tmp_files context     *)
(* cleans the temporary files and the build directory before the build and  *)
(* again after it only if the build succeeded; if the build command fails,  *)
(* the post-build cleanup is skipped (the logs are kept) while the          *)
(* repository is still switched back to the branch that was active before   *)
(* the build, and no later package is built.                                *)
C39_CleanupAroundBuild ==
    /\ [](pc \in {"build_switch", "build_run"} => ~eb_tmp /\ ~buildpath)
    /\ [][(pc = "build_run")
          => /\ active' = IF initial_branch = "none" THEN active ELSE initial_branch
             /\ \/ /\ <<"build", Head(pkgs_to_build), "ok">> \in NewEvents
                   /\ <<"clean", Head(pkgs_to_build), "after">> \in NewEvents
                   /\ ~eb_tmp' /\ ~buildpath'
                   /\ pkgs_to_build' = Tail(pkgs_to_build)
                   /\ pc' = "build_next"
                \/ /\ <<"build", Head(pkgs_to_build), "failed">> \in NewEvents
                   /\ <<"clean", Head(pkgs_to_build), "after">> \notin NewEvents
                   /\ eb_tmp' /\ buildpath'
                   /\ pkgs_to_build' = pkgs_to_build
                   /\ pc' = "failed"
                   /\ err' = "ValueError"]_vars
    /\ [][BuildFailed => UNCHANGED <<log, eb_tmp, buildpath, active, pkgs_to_build>>]_vars

\* The second package, from the main branch, failed to build: its files are
\* kept, the node branch is checked out again and the third was not built.
C39_Witness ==
    /\ pc = "failed"
    /\ err = "ValueError"
    /\ Len(pkgs_to_build) = 2
    /\ Head(pkgs_to_build) = MainBranch
    /\ Happened(<<"build", MainBranch, "failed">>)
    /\ Happened(<<"clean", MainBranch, "before">>)
    /\ \E b \in PkgBranches : Happened(<<"clean", b, "after">>)
    /\ active = NodeBranch
    /\ eb_tmp
    /\ buildpath

====
